---- MODULE Spec2Model ----
(***************************************************************************)
(* A model of the Clausewitz script tokenizer, parser, document helper and *)
(* stringifier of src/src/index.ts.                                        *)
(*                                                                         *)
(* Text is a sequence of one-character strings.  Objects of the AST that   *)
(* JavaScript holds by reference (Document, Block, ValueArray) live in a   *)
(* heap, a sequence of nodes addressed by their index; a Property holds a  *)
(* primitive or a reference [ref |-> id] to a heap node.                   *)
(***************************************************************************)
EXTENDS Integers, Sequences, FiniteSets, TLC

VARIABLES
    pc,        \* position of the driver: which call comes next
    input,     \* the text handed to tokenize / parse
    options,   \* the StringifyOptions handed to stringify
    tokRes,    \* TokenizerResult of tokenize(input)
    tokNcRes,  \* TokenizerResult of tokenizeWithoutComments(input)
    res1,      \* ParseResult of parse(input)
    out1,      \* stringify(res1.document, options)
    res2,      \* ParseResult of parse(out1)
    out2,      \* stringify(res2.document, options)
    heap,      \* the objects of the document under edit
    root,      \* reference of the Document node of the document under edit
    last,      \* the last ClausewitzDocument call: name, arguments, result, heap before
    source     \* the properties the input text was written from, where it was

vars == <<pc, input, options, tokRes, tokNcRes, res1, out1, res2, out2, heap, root,
          last, source>>

(***************************************************************************)
(* Characters                                                              *)
(***************************************************************************)
NUL == "NUL"   \* the '\0' that peek/peekNext return past the end of input

Digits == {"0", "1", "2", "3", "4", "5", "6", "7", "8", "9"}

Alpha == {"a", "b", "c", "d", "e", "f", "g", "h", "i", "j", "k", "l", "m",
          "n", "o", "p", "q", "r", "s", "t", "u", "v", "w", "x", "y", "z",
          "A", "B", "C", "D", "E", "F", "G", "H", "I", "J", "K", "L", "M",
          "N", "O", "P", "Q", "R", "S", "T", "U", "V", "W", "X", "Y", "Z"}

\* The characters skipWhitespace steps over.
SkippedWhitespace == {" ", "\t", "\r", "\n"}

\* The characters String.prototype.trim removes (those of the model's alphabet).
TrimWhitespace == {" ", "\t", "\r", "\n", "\f"}

isDigit(char) == char \in Digits

isAlpha(char) == char \in Alpha

\* Mutant of isIdentifierStart: the class of the later characters.
isIdentifierStartAsLater(char) ==
    isAlpha(char) \/ isDigit(char) \/ char \in {"_", ":", ".", "[", "]", "@"}

isIdentifierStart(char) == isAlpha(char) \/ char = "_" \/ char = "@"

isIdentifierChar(char) ==
    isAlpha(char) \/ isDigit(char) \/ char \in {"_", ":", ".", "[", "]", "@"}

yesText == <<"y", "e", "s">>
noText == <<"n", "o">>

(***************************************************************************)
(* String helpers                                                          *)
(***************************************************************************)
RECURSIVE trimStart(_)
trimStart(s) ==
    IF Len(s) > 0 /\ Head(s) \in TrimWhitespace THEN trimStart(Tail(s)) ELSE s

RECURSIVE trimEnd(_)
trimEnd(s) ==
    IF Len(s) > 0 /\ s[Len(s)] \in TrimWhitespace
    THEN trimEnd(SubSeq(s, 1, Len(s) - 1))
    ELSE s

trim(s) == trimEnd(trimStart(s))

\* Mutant of isEmptyInput: the check without the trim.
isEmptyInputUntrimmed(text) == Len(text) = 0

\* `!input || input.trim().length === 0`
isEmptyInput(text) == Len(text) = 0 \/ Len(trim(text)) = 0

EmptyInputError == [msg |-> "Input cannot be empty"]

(***************************************************************************)
(* Tokenizer.  A tokenizer state t is [position, line, column, tokens];    *)
(* position is the 0-based index of the code, so the character under the   *)
(* cursor is text[position + 1].                                           *)
(***************************************************************************)
NewTokenizer == [position |-> 0, line |-> 1, column |-> 1, tokens |-> <<>>]

Token(type, value, line, column) ==
    [type |-> type, value |-> value, line |-> line, column |-> column]

TokenizerIsAtEnd(text, t) == t.position >= Len(text)

TokenizerPeek(text, t) ==
    IF TokenizerIsAtEnd(text, t) THEN NUL ELSE text[t.position + 1]

TokenizerPeekNext(text, t) ==
    IF t.position + 1 >= Len(text) THEN NUL ELSE text[t.position + 2]

\* Mutant of TokenizerAdvance: a newline counted as any other character.
\* Mutant of TokenizerAdvance: the column of a new line starts at 0.
advanceToColumnZero(text, t) ==
    LET char == text[t.position + 1] IN
    [t EXCEPT !.position = @ + 1,
              !.line = IF char = "\n" THEN @ + 1 ELSE @,
              !.column = IF char = "\n" THEN 0 ELSE @ + 1]

advanceOnOneLine(text, t) ==
    [t EXCEPT !.position = @ + 1, !.column = @ + 1]

TokenizerAdvance(text, t) ==
    LET char == text[t.position + 1] IN
    [t EXCEPT !.position = @ + 1,
              !.line = IF char = "\n" THEN @ + 1 ELSE @,
              !.column = IF char = "\n" THEN 1 ELSE @ + 1]

RECURSIVE skipWhitespace(_, _)
skipWhitespace(text, t) ==
    IF ~TokenizerIsAtEnd(text, t) /\ TokenizerPeek(text, t) \in SkippedWhitespace
    THEN skipWhitespace(text, TokenizerAdvance(text, t))
    ELSE t

\* The loops of the scanners: each returns the tokenizer state reached and
\* the text accumulated in `value`.
RECURSIVE scanCommentLoop(_, _, _)
scanCommentLoop(text, t, value) ==
    IF ~TokenizerIsAtEnd(text, t) /\ TokenizerPeek(text, t) # "\n"
    THEN scanCommentLoop(text, TokenizerAdvance(text, t),
                         Append(value, TokenizerPeek(text, t)))
    ELSE [t |-> t, value |-> value]

scanComment(text, t, startLine, startColumn) ==
    LET r == scanCommentLoop(text, TokenizerAdvance(text, t), <<>>) IN
    [t |-> r.t, token |-> Token("Comment", trim(r.value), startLine, startColumn)]

\* Mutant of scanStringLoop: no escaped quotes.
RECURSIVE scanStringLoopToFirstQuote(_, _, _)
scanStringLoopToFirstQuote(text, t, value) ==
    IF ~TokenizerIsAtEnd(text, t) /\ TokenizerPeek(text, t) # "\""
    THEN scanStringLoopToFirstQuote(text, TokenizerAdvance(text, t),
                                    Append(value, TokenizerPeek(text, t)))
    ELSE [t |-> t, value |-> value]

RECURSIVE scanStringLoop(_, _, _)
scanStringLoop(text, t, value) ==
    IF ~TokenizerIsAtEnd(text, t) /\ TokenizerPeek(text, t) # "\""
    THEN IF TokenizerPeek(text, t) = "\n"
         THEN scanStringLoop(text, TokenizerAdvance(text, t), Append(value, "\n"))
         ELSE IF TokenizerPeek(text, t) = "\\" /\ TokenizerPeekNext(text, t) = "\""
         THEN LET t1 == TokenizerAdvance(text, t) IN
              scanStringLoop(text, TokenizerAdvance(text, t1),
                             Append(value, TokenizerPeek(text, t1)))
         ELSE scanStringLoop(text, TokenizerAdvance(text, t),
                             Append(value, TokenizerPeek(text, t)))
    ELSE [t |-> t, value |-> value]

scanString(text, t, startLine, startColumn) ==
    LET r == scanStringLoop(text, TokenizerAdvance(text, t), <<>>) IN
    IF TokenizerIsAtEnd(text, r.t)
    THEN [t |-> r.t,
          error |-> [msg |-> "Unterminated string starting",
                     line |-> startLine, column |-> startColumn]]
    ELSE [t |-> TokenizerAdvance(text, r.t),
          token |-> Token("String", r.value, startLine, startColumn)]

RECURSIVE scanDigits(_, _, _)
scanDigits(text, t, value) ==
    IF ~TokenizerIsAtEnd(text, t) /\ isDigit(TokenizerPeek(text, t))
    THEN scanDigits(text, TokenizerAdvance(text, t),
                    Append(value, TokenizerPeek(text, t)))
    ELSE [t |-> t, value |-> value]

\* Mutant of scanNumber: a point after the digits is taken with the number
\* whatever follows it.
scanNumberWithPoint(text, t, startLine, startColumn) ==
    LET sign == IF TokenizerPeek(text, t) = "-"
                THEN [t |-> TokenizerAdvance(text, t), value |-> <<"-">>]
                ELSE [t |-> t, value |-> <<>>]
        int == scanDigits(text, sign.t, sign.value)
        dec == IF TokenizerPeek(text, int.t) = "."
               THEN scanDigits(text, TokenizerAdvance(text, int.t),
                               Append(int.value, "."))
               ELSE int
    IN [t |-> dec.t, token |-> Token("Number", dec.value, startLine, startColumn)]

scanNumber(text, t, startLine, startColumn) ==
    LET sign == IF TokenizerPeek(text, t) = "-"
                THEN [t |-> TokenizerAdvance(text, t), value |-> <<"-">>]
                ELSE [t |-> t, value |-> <<>>]
        int == scanDigits(text, sign.t, sign.value)
        dec == IF TokenizerPeek(text, int.t) = "."
                  /\ isDigit(TokenizerPeekNext(text, int.t))
               THEN scanDigits(text, TokenizerAdvance(text, int.t),
                               Append(int.value, "."))
               ELSE int
    IN [t |-> dec.t, token |-> Token("Number", dec.value, startLine, startColumn)]

RECURSIVE scanIdentifierLoop(_, _, _)
scanIdentifierLoop(text, t, value) ==
    IF ~TokenizerIsAtEnd(text, t) /\ isIdentifierChar(TokenizerPeek(text, t))
    THEN scanIdentifierLoop(text, TokenizerAdvance(text, t),
                            Append(value, TokenizerPeek(text, t)))
    ELSE [t |-> t, value |-> value]

scanIdentifier(text, t, startLine, startColumn) ==
    LET r == scanIdentifierLoop(text, t, <<>>) IN
    IF r.value = yesText \/ r.value = noText
    THEN [t |-> r.t, token |-> Token("Boolean", r.value, startLine, startColumn)]
    ELSE [t |-> r.t, token |-> Token("Identifier", r.value, startLine, startColumn)]

\* One token, or the error thrown: [t, token] or [t, error].
scanToken(text, t) ==
    LET startLine == t.line
        startColumn == t.column
        char == TokenizerPeek(text, t)
        t1 == TokenizerAdvance(text, t)
        one(type) == [t |-> t1, token |-> Token(type, <<char>>, startLine, startColumn)]
        two(type) ==
            [t |-> TokenizerAdvance(text, t1),
             token |-> Token(type, <<char, TokenizerPeek(text, t1)>>,
                             startLine, startColumn)]
    IN
    IF char = "#" THEN scanComment(text, t, startLine, startColumn)
    ELSE IF char = "\"" THEN scanString(text, t, startLine, startColumn)
    ELSE IF isDigit(char) \/ (char = "-" /\ isDigit(TokenizerPeekNext(text, t)))
    THEN scanNumber(text, t, startLine, startColumn)
    ELSE IF char = "=" THEN one("Equals")
    ELSE IF char = "{" THEN one("LeftBrace")
    ELSE IF char = "}" THEN one("RightBrace")
    ELSE IF char = "<"
    THEN IF TokenizerPeek(text, t1) = "=" THEN two("LessThanOrEqual")
         ELSE IF TokenizerPeek(text, t1) = ">" THEN two("NotEqual")
         ELSE one("LessThan")
    ELSE IF char = ">"
    THEN IF TokenizerPeek(text, t1) = "=" THEN two("GreaterThanOrEqual")
         ELSE one("GreaterThan")
    ELSE IF char = "!" /\ TokenizerPeekNext(text, t) = "=" THEN two("NotEqual")
    ELSE IF isIdentifierStart(char)
    THEN scanIdentifier(text, t, startLine, startColumn)
    ELSE [t |-> t,
          error |-> [msg |-> "Unexpected character", char |-> char,
                     line |-> startLine, column |-> startColumn]]

\* Tokenizer.tokenize: the main loop, the EOF token and the catch clause.
RECURSIVE TokenizerTokenize(_, _)
TokenizerTokenize(text, t) ==
    LET finish(tEnd) ==
            [success |-> TRUE,
             tokens |-> Append(tEnd.tokens, Token("EOF", <<>>, tEnd.line, tEnd.column))]
    IN
    IF TokenizerIsAtEnd(text, t) THEN finish(t)
    ELSE LET t1 == skipWhitespace(text, t) IN
         IF TokenizerIsAtEnd(text, t1) THEN finish(t1)
         ELSE LET r == scanToken(text, t1) IN
              IF "error" \in DOMAIN r
              THEN [success |-> FALSE, error |-> r.error,
                    errorLine |-> r.t.line, errorColumn |-> r.t.column]
              ELSE TokenizerTokenize(text, [r.t EXCEPT !.tokens = Append(@, r.token)])

tokenize(text) ==
    IF isEmptyInput(text)
    THEN [success |-> FALSE, error |-> EmptyInputError]
    ELSE TokenizerTokenize(text, NewTokenizer)

\* Mutant of withoutComments: nothing filtered.
withComments(tokens) == tokens

withoutComments(tokens) == SelectSeq(tokens, LAMBDA tk : tk.type # "Comment")

tokenizeWithoutComments(text) ==
    LET result == tokenize(text) IN
    IF result.success /\ "tokens" \in DOMAIN result
    THEN [result EXCEPT !.tokens = withoutComments(@)]
    ELSE result

(***************************************************************************)
(* Values.  A primitive is tagged by its JavaScript type; a number is the  *)
(* decimal num / 10^scale with no trailing zero in its fraction (scale = 0 *)
(* or num not a multiple of 10), which is the value parseFloat yields for  *)
(* the literals of the model.  A Block or ValueArray value is a reference  *)
(* to a heap node.                                                         *)
(***************************************************************************)
StringValue(chars) == [kind |-> "string", str |-> chars]

BooleanValue(b) == [kind |-> "boolean", bool |-> b]

NumberValue(num, scale) == [kind |-> "number", num |-> num, scale |-> scale]

Ref(id) == [kind |-> "ref", ref |-> id]

isRef(value) == value.kind = "ref"

digitValue(char) ==
    CASE char = "0" -> 0 [] char = "1" -> 1 [] char = "2" -> 2 [] char = "3" -> 3
      [] char = "4" -> 4 [] char = "5" -> 5 [] char = "6" -> 6 [] char = "7" -> 7
      [] char = "8" -> 8 [] char = "9" -> 9

digitChar(d) ==
    CASE d = 0 -> "0" [] d = 1 -> "1" [] d = 2 -> "2" [] d = 3 -> "3"
      [] d = 4 -> "4" [] d = 5 -> "5" [] d = 6 -> "6" [] d = 7 -> "7"
      [] d = 8 -> "8" [] d = 9 -> "9"

RECURSIVE pow10(_)
pow10(k) == IF k = 0 THEN 1 ELSE 10 * pow10(k - 1)

\* The leading digits of s read as a natural number, and how many they are.
RECURSIVE readDigits(_, _, _)
readDigits(s, acc, n) ==
    IF Len(s) > 0 /\ isDigit(Head(s))
    THEN readDigits(Tail(s), 10 * acc + digitValue(Head(s)), n + 1)
    ELSE [value |-> acc, count |-> n, rest |-> s]

RECURSIVE stripZeros(_, _)
stripZeros(num, scale) ==
    IF scale > 0 /\ num % 10 = 0 THEN stripZeros(num \div 10, scale - 1)
    ELSE NumberValue(num, scale)

\* parseFloat on a Number literal: -?digits(.digits)?
parseFloat(literal) ==
    LET negative == Len(literal) > 0 /\ Head(literal) = "-"
        body == IF negative THEN Tail(literal) ELSE literal
        int == readDigits(body, 0, 0)
        frac == IF Len(int.rest) > 1 /\ Head(int.rest) = "."
                THEN readDigits(Tail(int.rest), 0, 0)
                ELSE [value |-> 0, count |-> 0, rest |-> int.rest]
        magnitude == int.value * pow10(frac.count) + frac.value
    IN stripZeros(IF negative THEN 0 - magnitude ELSE magnitude, frac.count)

\* parseInt(literal, 10): the sign and the leading digits, nothing after.
parseInt(literal) ==
    LET negative == Len(literal) > 0 /\ Head(literal) = "-"
        body == IF negative THEN Tail(literal) ELSE literal
        int == readDigits(body, 0, 0)
    IN NumberValue(IF negative THEN 0 - int.value ELSE int.value, 0)

\* Number.isInteger
isInteger(number) == number.scale = 0

\* Mutant of toNumber: parseInt whatever the literal.
toNumberTruncating(literal) == parseInt(literal)

\* `Number.isInteger(num) ? parseInt(token.value, 10) : num`
toNumber(literal) ==
    LET num == parseFloat(literal) IN
    IF isInteger(num) THEN parseInt(literal) ELSE num

(***************************************************************************)
(* Parser.  A parser state p is [position, heap]: the 0-based cursor of    *)
(* the code and the objects created so far.  Every parse operator returns  *)
(* the state reached with its result, or with the error it throws.         *)
(***************************************************************************)
NullToken == [type |-> "null"]

NewParser(tokens) == [position |-> 0, heap |-> <<>>]

ParserPeek(tokens, p) == tokens[p.position + 1]

ParserIsAtEnd(tokens, p) == ParserPeek(tokens, p).type = "EOF"

ParserPeekNext(tokens, p) ==
    IF p.position + 1 >= Len(tokens) THEN NullToken ELSE tokens[p.position + 2]

check(tokens, p, type) ==
    IF ParserIsAtEnd(tokens, p) THEN FALSE ELSE ParserPeek(tokens, p).type = type

ParserAdvance(tokens, p) ==
    IF ~ParserIsAtEnd(tokens, p) THEN [p EXCEPT !.position = @ + 1] ELSE p

\* The token advance() returns: tokens[position - 1] after the move.
previous(tokens, p) == tokens[p.position]

alloc(p, node) == [p EXCEPT !.heap = Append(@, node)]

OperatorTypes ==
    {"Equals", "LessThan", "GreaterThan", "LessThanOrEqual",
     "GreaterThanOrEqual", "NotEqual"}

isOperatorType(type) == type \in OperatorTypes

\* [p, operator]; operator is <<>> for null, else the one spelling.
\* Mutant of parseOperator: one spelling for the NotEqual token.
parseOperatorCanonical(tokens, p) ==
    IF ~isOperatorType(ParserPeek(tokens, p).type) THEN [p |-> p, operator |-> <<>>]
    ELSE [p |-> ParserAdvance(tokens, p),
          operator |-> IF ParserPeek(tokens, p).type = "NotEqual" THEN <<"!", "=">>
                       ELSE ParserPeek(tokens, p).value]

parseOperator(tokens, p) ==
    LET p1 == ParserAdvance(tokens, p) IN
    IF check(tokens, p, "Equals") THEN [p |-> p1, operator |-> <<"=">>]
    ELSE IF check(tokens, p, "LessThan") THEN [p |-> p1, operator |-> <<"<">>]
    ELSE IF check(tokens, p, "GreaterThan") THEN [p |-> p1, operator |-> <<">">>]
    ELSE IF check(tokens, p, "LessThanOrEqual")
    THEN [p |-> p1, operator |-> <<"<", "=">>]
    ELSE IF check(tokens, p, "GreaterThanOrEqual")
    THEN [p |-> p1, operator |-> <<">", "=">>]
    ELSE IF check(tokens, p, "NotEqual")
    THEN [p |-> p1, operator |-> previous(tokens, p1).value]
    ELSE [p |-> p, operator |-> <<>>]

\* Mutant of isValueArray: decided by the first token alone.
isValueArrayByFirst(tokens, p) ==
    ParserPeek(tokens, p).type \in {"Number", "Boolean"}

isValueArray(tokens, p) ==
    IF check(tokens, p, "RightBrace") THEN FALSE
    ELSE LET first == ParserPeek(tokens, p)
             next == ParserPeekNext(tokens, p)
         IN first.type \in {"Number", "Boolean"}
            /\ next # NullToken
            /\ ~isOperatorType(next.type)

\* The value of a token that is a value by itself.
primitiveOf(token) ==
    IF token.type = "Number" THEN toNumber(token.value)
    ELSE IF token.type = "Boolean" THEN BooleanValue(token.value = yesText)
    ELSE StringValue(token.value)

RECURSIVE parseValueArray(_, _, _)
parseValueArray(tokens, p, values) ==
    IF ~ParserIsAtEnd(tokens, p) /\ ~check(tokens, p, "RightBrace")
    THEN IF check(tokens, p, "Number") \/ check(tokens, p, "String")
            \/ check(tokens, p, "Boolean") \/ check(tokens, p, "Identifier")
         THEN parseValueArray(tokens, ParserAdvance(tokens, p),
                              Append(values, primitiveOf(ParserPeek(tokens, p))))
         ELSE [p |-> p, values |-> values]
    ELSE [p |-> p, values |-> values]

ExpectedBrace(tokens, p) ==
    [msg |-> "Expected '}'", line |-> ParserPeek(tokens, p).line,
     column |-> ParserPeek(tokens, p).column]

RECURSIVE parseProperties(_, _, _)
RECURSIVE parseProperty(_, _)
RECURSIVE parseValue(_, _)
RECURSIVE parseBlockOrArray(_, _)
RECURSIVE pushProperty(_, _, _)
RECURSIVE unshiftProperty(_, _, _)

\* Mutant of pushProperty: unshift for push.
unshiftProperty(tokens, r, properties) ==
    IF "error" \in DOMAIN r THEN r
    ELSE parseProperties(tokens, r.p, r.property \o properties)

\* `if (prop) properties.push(prop)` and the next turn of the loop; r is what
\* parseProperty returned or threw.
pushProperty(tokens, r, properties) ==
    IF "error" \in DOMAIN r THEN r
    ELSE parseProperties(tokens, r.p, properties \o r.property)

\* [p, properties] or [p, error]
parseProperties(tokens, p, properties) ==
    IF ~ParserIsAtEnd(tokens, p) /\ ~check(tokens, p, "RightBrace")
    THEN pushProperty(tokens, parseProperty(tokens, p), properties)
    ELSE [p |-> p, properties |-> properties]

\* The return of parseProperty; v is what parseValue returned or threw.
makeProperty(keyToken, operator, v) ==
    IF "error" \in DOMAIN v THEN v
    ELSE [p |-> v.p,
          property |-> <<[type |-> "Property", key |-> keyToken.value,
                          operator |-> operator, value |-> v.value,
                          line |-> keyToken.line, column |-> keyToken.column]>>]

\* parseProperty after the operator: op is what parseOperator returned.
parsePropertyValue(tokens, keyToken, op) ==
    IF op.operator = <<>>
    THEN [p |-> op.p,
          error |-> [msg |-> "Expected operator after", key |-> keyToken.value,
                     line |-> keyToken.line, column |-> keyToken.column]]
    ELSE makeProperty(keyToken, op.operator, parseValue(tokens, op.p))

\* Mutant of parseProperty: a token that starts no property is an error.
parsePropertyStrict(tokens, p) ==
    IF ~check(tokens, p, "Identifier")
    THEN [p |-> p,
          error |-> [msg |-> "Unexpected token", value |-> ParserPeek(tokens, p).value,
                     line |-> ParserPeek(tokens, p).line,
                     column |-> ParserPeek(tokens, p).column]]
    ELSE parsePropertyValue(tokens, ParserPeek(tokens, p),
                            parseOperator(tokens, ParserAdvance(tokens, p)))

\* [p, property] or [p, error]; property is <<>> for null, else <<Property>>.
parseProperty(tokens, p) ==
    IF ~check(tokens, p, "Identifier")
    THEN [p |-> IF ~ParserIsAtEnd(tokens, p) THEN ParserAdvance(tokens, p) ELSE p,
          property |-> <<>>]
    ELSE parsePropertyValue(tokens, ParserPeek(tokens, p),
                            parseOperator(tokens, ParserAdvance(tokens, p)))

\* [p, value] or [p, error]
parseValue(tokens, p) ==
    IF check(tokens, p, "LeftBrace") THEN parseBlockOrArray(tokens, p)
    ELSE IF check(tokens, p, "String") \/ check(tokens, p, "Number")
            \/ check(tokens, p, "Boolean") \/ check(tokens, p, "Identifier")
    THEN [p |-> ParserAdvance(tokens, p), value |-> primitiveOf(ParserPeek(tokens, p))]
    ELSE [p |-> p,
          error |-> [msg |-> "Unexpected token", value |-> ParserPeek(tokens, p).value,
                     line |-> ParserPeek(tokens, p).line,
                     column |-> ParserPeek(tokens, p).column]]

\* The new object as the value returned: the last node of the heap.
allocated(p) == [p |-> p, value |-> Ref(Len(p.heap))]

\* The closing brace of a ValueArray and the object returned; r is what
\* parseValueArray returned.
closeValueArray(tokens, startToken, r) ==
    IF ~check(tokens, r.p, "RightBrace")
    THEN [p |-> r.p, error |-> ExpectedBrace(tokens, r.p)]
    ELSE allocated(alloc(ParserAdvance(tokens, r.p),
                         [type |-> "ValueArray", values |-> r.values,
                          line |-> startToken.line, column |-> startToken.column]))

\* The closing brace of a Block and the object returned; r is what
\* parseProperties returned or threw.
closeBlock(tokens, startToken, r) ==
    IF "error" \in DOMAIN r THEN r
    ELSE IF ~check(tokens, r.p, "RightBrace")
    THEN [p |-> r.p, error |-> ExpectedBrace(tokens, r.p)]
    ELSE allocated(alloc(ParserAdvance(tokens, r.p),
                         [type |-> "Block", properties |-> r.properties,
                          line |-> startToken.line, column |-> startToken.column]))

\* [p, value] or [p, error]; the Block or ValueArray is a new heap node.
parseBlockOrArray(tokens, p) ==
    IF isValueArray(tokens, ParserAdvance(tokens, p))
    THEN closeValueArray(tokens, ParserPeek(tokens, p),
                         parseValueArray(tokens, ParserAdvance(tokens, p), <<>>))
    ELSE closeBlock(tokens, ParserPeek(tokens, p),
                    parseProperties(tokens, ParserAdvance(tokens, p), <<>>))

\* The result of Parser.parse; r is what parseProperties returned or threw.
\* Mutant of parserResult: the place of the first token reported.
parserResultAtStart(tokens, r) ==
    IF "error" \in DOMAIN r
    THEN [success |-> FALSE, error |-> r.error,
          errorLine |-> tokens[1].line, errorColumn |-> tokens[1].column]
    ELSE [success |-> TRUE, document |-> Len(r.p.heap) + 1,
          heap |-> Append(r.p.heap, [type |-> "Document", properties |-> r.properties])]

parserResult(tokens, r) ==
    IF "error" \in DOMAIN r
    THEN [success |-> FALSE, error |-> r.error,
          errorLine |-> ParserPeek(tokens, r.p).line,
          errorColumn |-> ParserPeek(tokens, r.p).column]
    ELSE [success |-> TRUE, document |-> Len(r.p.heap) + 1,
          heap |-> Append(r.p.heap, [type |-> "Document", properties |-> r.properties])]

\* Parser.parse on the tokens the constructor keeps (comments filtered out).
ParserParse(tokens) ==
    parserResult(tokens, parseProperties(tokens, NewParser(tokens), <<>>))

\* Mutant of parseTokens: the failure handed on without its position.
parseTokensDroppingPosition(tokenizerResult) ==
    IF ~tokenizerResult.success \/ "tokens" \notin DOMAIN tokenizerResult
    THEN [success |-> FALSE, error |-> tokenizerResult.error]
    ELSE ParserParse(withoutComments(tokenizerResult.tokens))

\* parse after the tokenizer: its failure handed on, or the Parser run.
parseTokens(tokenizerResult) ==
    IF ~tokenizerResult.success \/ "tokens" \notin DOMAIN tokenizerResult
    THEN [success |-> FALSE, error |-> tokenizerResult.error,
          errorLine |-> tokenizerResult.errorLine,
          errorColumn |-> tokenizerResult.errorColumn]
    ELSE ParserParse(withoutComments(tokenizerResult.tokens))

parse(text) ==
    IF isEmptyInput(text)
    THEN [success |-> FALSE, error |-> EmptyInputError]
    ELSE parseTokens(tokenize(text))

(***************************************************************************)
(* ClausewitzDocument: path access over the heap h of a document whose     *)
(* Document node is h[r].  A properties array is named by the node that    *)
(* owns it.                                                                *)
(***************************************************************************)
Undefined == [kind |-> "undefined"]

\* path.split('.')
RECURSIVE splitLoop(_, _, _)
splitLoop(s, current, parts) ==
    IF Len(s) = 0 THEN Append(parts, current)
    ELSE IF Head(s) = "." THEN splitLoop(Tail(s), <<>>, Append(parts, current))
    ELSE splitLoop(Tail(s), Append(current, Head(s)), parts)

split(path) == splitLoop(path, <<>>, <<>>)

\* Array.prototype.find by key: the index of the first match, 0 for none.
RECURSIVE findFrom(_, _, _)
findFrom(properties, key, i) ==
    IF i > Len(properties) THEN 0
    ELSE IF properties[i].key = key THEN i
    ELSE findFrom(properties, key, i + 1)

\* Mutant of find: the index of the last match.
RECURSIVE findLast(_, _)
findLast(properties, key) ==
    IF Len(properties) = 0 THEN 0
    ELSE IF properties[Len(properties)].key = key THEN Len(properties)
    ELSE findLast(SubSeq(properties, 1, Len(properties) - 1), key)

find(properties, key) == findFrom(properties, key, 1)

\* typeof v === 'object' && 'type' in v && v.type === 'Block'
isBlock(h, value) == isRef(value) /\ h[value.ref].type = "Block"

RECURSIVE getLoop(_, _, _, _)
getLoop(h, current, keys, i) ==
    IF i > Len(keys) THEN Undefined
    ELSE LET at == find(h[current].properties, keys[i]) IN
         IF at = 0 THEN Undefined
         ELSE LET prop == h[current].properties[at] IN
              IF i = Len(keys) THEN prop.value
              ELSE IF isBlock(h, prop.value)
              THEN getLoop(h, prop.value.ref, keys, i + 1)
              ELSE Undefined

get(h, r, path) == getLoop(h, r, split(path), 1)

\* Mutant of parentLoop: the last segment walked as well.
RECURSIVE parentLoopThroughLast(_, _, _, _)
parentLoopThroughLast(h, current, keys, i) ==
    IF i > Len(keys) THEN current
    ELSE LET at == find(h[current].properties, keys[i]) IN
         IF at = 0 THEN 0
         ELSE IF ~isBlock(h, h[current].properties[at].value) THEN 0
         ELSE parentLoopThroughLast(h, h[current].properties[at].value.ref, keys, i + 1)

\* The loop of getAll and set over all segments but the last: the node
\* owning `current`, or 0 where the code returns early.
RECURSIVE parentLoop(_, _, _, _)
parentLoop(h, current, keys, i) ==
    IF i > Len(keys) - 1 THEN current
    ELSE LET at == find(h[current].properties, keys[i]) IN
         IF at = 0 THEN 0
         ELSE IF ~isBlock(h, h[current].properties[at].value) THEN 0
         ELSE parentLoop(h, h[current].properties[at].value.ref, keys, i + 1)

\* Mutant of valuesOf: one entry for all the duplicates.
firstValueOf(properties) ==
    IF Len(properties) = 0 THEN <<>> ELSE <<properties[1].value>>

valuesOf(properties) == [i \in 1..Len(properties) |-> properties[i].value]

getAll(h, r, path) ==
    LET keys == split(path)
        current == parentLoop(h, r, keys, 1)
        lastKey == keys[Len(keys)]
    IN IF current = 0 THEN <<>>
       ELSE valuesOf(SelectSeq(h[current].properties, LAMBDA q : q.key = lastKey))

\* The mutating calls return [heap, result].
set(h, r, path, value) ==
    LET keys == split(path)
        current == parentLoop(h, r, keys, 1)
        lastKey == keys[Len(keys)]
        at == IF current = 0 THEN 0 ELSE find(h[current].properties, lastKey)
    IN IF current = 0 \/ at = 0 THEN [heap |-> h, result |-> FALSE]
       ELSE [heap |-> [h EXCEPT ![current].properties[at].value = value],
             result |-> TRUE]

\* The container add and removeAll work on: the node owning `target`, or 0.
targetOf(h, r, path) ==
    IF path = <<>> THEN r
    ELSE LET block == get(h, r, path) IN
         IF isBlock(h, block) THEN block.ref ELSE 0

\* Mutant of add: unshift for push.
addFirst(h, r, path, key, value, operator) ==
    LET target == targetOf(h, r, path) IN
    IF target = 0 THEN [heap |-> h, result |-> FALSE]
    ELSE [heap |-> [h EXCEPT ![target].properties =
                        <<[type |-> "Property", key |-> key,
                           operator |-> IF operator = <<>> THEN <<"=">> ELSE operator,
                           value |-> value]>> \o @],
          result |-> TRUE]

\* operator is <<>> where the caller leaves it out: `operator: Operator = '='`.
add(h, r, path, key, value, operator) ==
    LET target == targetOf(h, r, path) IN
    IF target = 0 THEN [heap |-> h, result |-> FALSE]
    ELSE [heap |-> [h EXCEPT ![target].properties =
                        Append(@, [type |-> "Property", key |-> key,
                                   operator |-> IF operator = <<>> THEN <<"=">>
                                                ELSE operator,
                                   value |-> value])],
          result |-> TRUE]

\* The properties left once the first one of the key is taken out.
RECURSIVE withoutFirst(_, _)
withoutFirst(properties, key) ==
    IF Len(properties) = 0 THEN <<>>
    ELSE IF Head(properties).key = key THEN Tail(properties)
    ELSE <<Head(properties)>> \o withoutFirst(Tail(properties), key)

\* Mutant of removeAll: only the first Property of the key removed.
removeFirst(h, r, path, key) ==
    LET target == targetOf(h, r, path) IN
    IF target = 0 THEN [heap |-> h, result |-> 0]
    ELSE LET before == Len(h[target].properties)
             remaining == withoutFirst(h[target].properties, key)
         IN [heap |-> [h EXCEPT ![target].properties = remaining],
             result |-> before - Len(remaining)]

removeAll(h, r, path, key) ==
    LET target == targetOf(h, r, path) IN
    IF target = 0 THEN [heap |-> h, result |-> 0]
    ELSE LET before == Len(h[target].properties)
             remaining == SelectSeq(h[target].properties, LAMBDA q : q.key # key)
         IN [heap |-> [h EXCEPT ![target].properties = remaining],
             result |-> before - Len(remaining)]

(***************************************************************************)
(* stringify                                                               *)
(***************************************************************************)
RECURSIVE repeat(_, _)
repeat(s, n) == IF n <= 0 THEN <<>> ELSE s \o repeat(s, n - 1)

RECURSIVE join(_, _)
join(parts, separator) ==
    IF Len(parts) = 0 THEN <<>>
    ELSE IF Len(parts) = 1 THEN parts[1]
    ELSE parts[1] \o separator \o join(Tail(parts), separator)

\* /^[a-zA-Z_@][a-zA-Z0-9_:.\[\]@]*$/.test(value)
looksLikeIdentifier(chars) ==
    /\ Len(chars) >= 1
    /\ chars[1] \in Alpha \cup {"_", "@"}
    /\ \A i \in 2..Len(chars) :
          chars[i] \in Alpha \cup Digits \cup {"_", ":", ".", "[", "]", "@"}

\* value.replace(/"/g, '\\"')
RECURSIVE escapeQuotes(_)
escapeQuotes(chars) ==
    IF Len(chars) = 0 THEN <<>>
    ELSE IF Head(chars) = "\"" THEN <<"\\", "\"">> \o escapeQuotes(Tail(chars))
    ELSE <<Head(chars)>> \o escapeQuotes(Tail(chars))

\* The decimal digits of a natural number.
RECURSIVE digitsOf(_)
digitsOf(n) ==
    IF n < 10 THEN <<digitChar(n)>> ELSE Append(digitsOf(n \div 10), digitChar(n % 10))

\* String(value) of a number num / 10^scale: decimal notation from 1e-6 up,
\* exponent notation below.
numberToString(number) ==
    LET magnitude == IF number.num < 0 THEN 0 - number.num ELSE number.num
        sign == IF number.num < 0 THEN <<"-">> ELSE <<>>
        digits == digitsOf(magnitude)
        whole == digitsOf(magnitude \div pow10(number.scale))
        fraction == digitsOf(magnitude % pow10(number.scale))
        padded == repeat(<<"0">>, number.scale - Len(fraction)) \o fraction
    IN IF number.scale = 0 THEN sign \o digits
       ELSE IF Len(digits) <= number.scale - 6
       THEN sign \o <<Head(digits)>>
            \o (IF Len(digits) > 1 THEN <<".">> \o Tail(digits) ELSE <<>>)
            \o <<"e", "-">> \o digitsOf(number.scale + 1 - Len(digits))
       ELSE sign \o whole \o <<".">> \o padded

\* Mutant of isPrimitiveValue: every value taken for a primitive.
isAnyValue(value) == TRUE

isPrimitiveValue(value) == value.kind \in {"string", "number", "boolean"}

RECURSIVE stringifyValue(_, _, _, _)
stringifyValue(h, value, depth, indent) ==
    IF value.kind = "string"
    THEN IF looksLikeIdentifier(value.str) THEN value.str
         ELSE <<"\"">> \o escapeQuotes(value.str) \o <<"\"">>
    ELSE IF value.kind = "number" THEN numberToString(value)
    ELSE IF value.kind = "boolean" THEN (IF value.bool THEN yesText ELSE noText)
    ELSE LET node == h[value.ref] IN
         IF node.type = "ValueArray"
         THEN <<"{", " ">>
              \o join([i \in 1..Len(node.values) |->
                          stringifyValue(h, node.values[i], depth, indent)], <<" ">>)
              \o <<" ", "}">>
         ELSE IF Len(node.properties) = 0 THEN <<"{", " ", "}">>
         ELSE LET canBeInline ==
                      /\ Len(node.properties) <= 3
                      /\ \A i \in 1..Len(node.properties) :
                            isPrimitiveValue(node.properties[i].value)
                  line(q, prefix, d) ==
                      prefix \o q.key \o <<" ">> \o q.operator \o <<" ">>
                      \o stringifyValue(h, q.value, d, indent)
              IN IF canBeInline
                 THEN <<"{", " ">>
                      \o join([i \in 1..Len(node.properties) |->
                                  line(node.properties[i], <<>>, depth)], <<" ">>)
                      \o <<" ", "}">>
                 ELSE <<"{", "\n">>
                      \o join([i \in 1..Len(node.properties) |->
                                  line(node.properties[i], repeat(indent, depth + 1),
                                       depth + 1)], <<"\n">>)
                      \o <<"\n">> \o repeat(indent, depth) \o <<"}">>

\* The lines of the top-level loop, the blank ones included.
RECURSIVE topLevelLines(_, _, _, _, _)
topLevelLines(h, properties, i, indent, spaceBetweenTopLevel) ==
    IF i > Len(properties) THEN <<>>
    ELSE LET prop == properties[i]
             line == prop.key \o <<" ">> \o prop.operator \o <<" ">>
                     \o stringifyValue(h, prop.value, 0, indent)
         IN <<line>>
            \o (IF spaceBetweenTopLevel /\ i < Len(properties) THEN <<<<>>>> ELSE <<>>)
            \o topLevelLines(h, properties, i + 1, indent, spaceBetweenTopLevel)

\* Mutant of stringify: indent, when given, goes before spaces.
stringifyIndentFirst(h, doc, opts) ==
    LET indent == IF "indent" \in DOMAIN opts THEN opts.indent
                  ELSE IF "spaces" \in DOMAIN opts THEN repeat(<<" ">>, opts.spaces)
                  ELSE <<"\t">>
        spaceBetweenTopLevel ==
            IF "spaceBetweenTopLevel" \in DOMAIN opts THEN opts.spaceBetweenTopLevel
            ELSE FALSE
    IN join(topLevelLines(h, h[doc].properties, 1, indent, spaceBetweenTopLevel),
            <<"\n">>)

\* opts holds only the fields the caller gave.
stringify(h, doc, opts) ==
    LET indent == IF "spaces" \in DOMAIN opts THEN repeat(<<" ">>, opts.spaces)
                  ELSE IF "indent" \in DOMAIN opts THEN opts.indent
                  ELSE <<"\t">>
        spaceBetweenTopLevel ==
            IF "spaceBetweenTopLevel" \in DOMAIN opts THEN opts.spaceBetweenTopLevel
            ELSE FALSE
    IN join(topLevelLines(h, h[doc].properties, 1, indent, spaceBetweenTopLevel),
            <<"\n">>)

(***************************************************************************)
(* Comparing documents: the tree a value unfolds to, without the source    *)
(* positions.  Only used on heaps the parser built, which hold no cycle.   *)
(***************************************************************************)
RECURSIVE Deep(_, _)
Deep(h, value) ==
    IF ~isRef(value) THEN value
    ELSE LET node == h[value.ref] IN
         IF node.type = "ValueArray"
         THEN [type |-> "ValueArray", values |-> node.values]
         ELSE [type |-> node.type,
               properties |->
                   [i \in 1..Len(node.properties) |->
                       [key |-> node.properties[i].key,
                        operator |-> node.properties[i].operator,
                        value |-> Deep(h, node.properties[i].value)]]]

DeepAll(h, values) == [i \in 1..Len(values) |-> Deep(h, values[i])]

\* The dotted paths along the keys of the tree below node id.
RECURSIVE PathsBelow(_, _)
PathsBelow(h, id) ==
    UNION {
        {h[id].properties[i].key}
        \cup (IF isBlock(h, h[id].properties[i].value)
              THEN {h[id].properties[i].key \o <<".">> \o rest :
                       rest \in PathsBelow(h, h[id].properties[i].value.ref)}
              ELSE {})
        : i \in 1..Len(h[id].properties)}

(***************************************************************************)
(* Inputs                                                                  *)
(***************************************************************************)
None == "none"

\* All texts made of at most n chunks.
RECURSIVE Texts(_, _)
Texts(chunks, n) ==
    IF n = 0 THEN {<<>>}
    ELSE LET shorter == Texts(chunks, n - 1) IN
         shorter \cup {c \o s : c \in chunks, s \in shorter}

MaxChunks == 4

RoundTripChunks ==
    { <<"a", " ", "=", " ">>,
      <<"b", " ", "<", ">", " ">>,
      <<"a", " ", "=", " ", "{", " ">>,
      <<"}", "\n">>,
      <<"1", ".", "5", "0", " ">>,
      <<"\"", "y", "e", "s", "\"", " ">>,
      <<"n", "o", " ">>,
      <<"x", " ">>,
      <<"#", "c", "\n">>,
      <<"\"", "a", "\\", "\"", " ", "b", "\"", " ">>,
      <<"0", ".", "0", "0", "0", "0", "0", "0", "1", " ">> }

RoundTripInputs == Texts(RoundTripChunks, MaxChunks)

OptionValues ==
    { <<>>,
      [spaces |-> 2],
      [indent |-> <<" ", " ">>, spaceBetweenTopLevel |-> TRUE],
      [indent |-> <<"#">>],
      [spaces |-> 0, indent |-> <<"x", " ">>] }

(***************************************************************************)
(* Round trip: parse(input), stringify, parse again, stringify again.      *)
(***************************************************************************)
InitRoundTrip ==
    /\ pc = "parse"
    /\ input \in RoundTripInputs
    /\ options = None /\ tokRes = None /\ tokNcRes = None
    /\ res1 = None /\ out1 = None /\ res2 = None /\ out2 = None
    /\ heap = None /\ root = None /\ last = None /\ source = None

Parse1 ==
    /\ pc = "parse"
    /\ res1' = parse(input)
    /\ pc' = IF res1'.success THEN "stringify" ELSE "failed"
    /\ UNCHANGED <<input, options, tokRes, tokNcRes, out1, res2, out2, heap, root, last, source>>

Stringify1 ==
    /\ pc = "stringify"
    /\ \E o \in OptionValues :
          /\ options' = o
          /\ out1' = stringify(res1.heap, res1.document, o)
    /\ pc' = "reparse"
    /\ UNCHANGED <<input, tokRes, tokNcRes, res1, res2, out2, heap, root, last, source>>

Parse2 ==
    /\ pc = "reparse"
    /\ res2' = parse(out1)
    /\ pc' = IF res2'.success THEN "restringify" ELSE "refused"
    /\ UNCHANGED <<input, options, tokRes, tokNcRes, res1, out1, out2, heap, root, last, source>>

Stringify2 ==
    /\ pc = "restringify"
    /\ out2' = stringify(res2.heap, res2.document, options)
    /\ pc' = "done"
    /\ UNCHANGED <<input, options, tokRes, tokNcRes, res1, out1, res2, heap, root, last, source>>

NextRoundTrip == Parse1 \/ Stringify1 \/ Parse2 \/ Stringify2

SpecRoundTrip == InitRoundTrip /\ [][NextRoundTrip]_vars

(***************************************************************************)
(* Round-trip claims                                                       *)
(***************************************************************************)
Reparsed == pc \in {"refused", "restringify", "done"}

HoldsProperty == Len(res1.heap[res1.document].properties) >= 1

\* The indentation unit stringify uses is made of whitespace only.
WhitespaceIndent ==
    \/ "spaces" \in DOMAIN options
    \/ "indent" \notin DOMAIN options
    \/ \A i \in 1..Len(options.indent) : options.indent[i] \in SkippedWhitespace

SamePaths(h1, d1, h2, d2) ==
    \A path \in PathsBelow(h1, d1) :
        get(h1, d1, path) # Undefined =>
            /\ Deep(h2, get(h2, d2, path)) = Deep(h1, get(h1, d1, path))
            /\ DeepAll(h2, getAll(h2, d2, path)) = DeepAll(h1, getAll(h1, d1, path))

\* C1: for every Document of a successful parse, parse(stringify(d)) succeeds
\* and the re-parsed Document gives the same get and getAll results on every
\* path that resolves in d.  Stated on the documents that hold at least one
\* property and for the default options; a document without properties
\* renders as the empty text, which parse refuses as empty input.
C1_RoundTrip ==
    (Reparsed /\ options = <<>> /\ HoldsProperty) =>
        /\ res2.success
        /\ SamePaths(res1.heap, res1.document, res2.heap, res2.document)

\* C2: with s = stringify(d), parse(s) succeeds and stringify(parse(s).document)
\* equals s character for character.  Stated on the documents that hold at
\* least one property and for the options whose indentation is whitespace; an
\* indentation unit such as "#" turns the inner lines of a block into comments.
C2_Idempotent ==
    (pc \in {"refused", "done"} /\ HoldsProperty /\ WhitespaceIndent) =>
        /\ pc = "done"
        /\ out2 = out1

(***************************************************************************)
(* The three entry points called on one text.                              *)
(***************************************************************************)
MaxChars == 4

CallAlphabet ==
    {"a", "=", "1", " ", "\n", "\f", "\"", "{", "}", "#", "!", "."}

CallInputs == Texts({<<c>> : c \in CallAlphabet}, MaxChars)

InitCalls ==
    /\ pc = "tokenize"
    /\ input \in CallInputs
    /\ options = None /\ tokRes = None /\ tokNcRes = None
    /\ res1 = None /\ out1 = None /\ res2 = None /\ out2 = None
    /\ heap = None /\ root = None /\ last = None /\ source = None

CallTokenize ==
    /\ pc = "tokenize"
    /\ tokRes' = tokenize(input)
    /\ pc' = "tokenizeWithoutComments"
    /\ UNCHANGED <<input, options, tokNcRes, res1, out1, res2, out2, heap, root, last, source>>

CallTokenizeWithoutComments ==
    /\ pc = "tokenizeWithoutComments"
    /\ tokNcRes' = tokenizeWithoutComments(input)
    /\ pc' = "parse"
    /\ UNCHANGED <<input, options, tokRes, res1, out1, res2, out2, heap, root, last, source>>

CallParse ==
    /\ pc = "parse"
    /\ res1' = parse(input)
    /\ pc' = "called"
    /\ UNCHANGED <<input, options, tokRes, tokNcRes, out1, res2, out2, heap, root, last, source>>

NextCalls == CallTokenize \/ CallTokenizeWithoutComments \/ CallParse

SpecCalls == InitCalls /\ [][NextCalls]_vars

\* The whitespace characters of the claim, stated apart from the code's sets.
WhitespaceOnly(text) == \A i \in 1..Len(text) : text[i] \in {" ", "\t", "\r", "\n", "\f"}

EmptyInputResult(result) ==
    /\ DOMAIN result = {"success", "error"}
    /\ result.success = FALSE
    /\ result.error = [msg |-> "Input cannot be empty"]

\* C3: on the empty string and on whitespace-only text, tokenize,
\* tokenizeWithoutComments and parse return success = false with the error
\* 'Input cannot be empty', no errorLine, no errorColumn, no tokens, no document.
C3_EmptyInput ==
    (pc = "called" /\ WhitespaceOnly(input)) =>
        /\ EmptyInputResult(tokRes)
        /\ EmptyInputResult(tokNcRes)
        /\ EmptyInputResult(res1)

C3_Witness ==
    /\ pc = "called"
    /\ Len(input) = 3 /\ WhitespaceOnly(input)
    /\ EmptyInputResult(tokRes) /\ EmptyInputResult(tokNcRes) /\ EmptyInputResult(res1)

\* The offset (number of characters before it) of a line/column position.
RECURSIVE OffsetOf(_, _, _, _, _)
OffsetOf(text, line, column, l, c) ==
    IF Len(text) = 0 \/ (l = line /\ c = column) THEN 0
    ELSE 1 + (IF Head(text) = "\n"
              THEN OffsetOf(Tail(text), line, column, l + 1, 1)
              ELSE OffsetOf(Tail(text), line, column, l, c + 1))

SuccessShape(result, payload) ==
    /\ payload \in DOMAIN result
    /\ DOMAIN result \cap {"error", "errorLine", "errorColumn"} = {}

FailureShape(result) ==
    /\ "error" \in DOMAIN result
    /\ DOMAIN result \cap {"tokens", "document", "heap"} = {}

\* Nothing before the place a lexical error names is itself in error.
FirstLexicalError(text, result) ==
    "line" \in DOMAIN result.error =>
        LET before == SubSeq(text, 1, OffsetOf(text, result.error.line,
                                               result.error.column, 1, 1))
        IN WhitespaceOnly(before) \/ tokenize(before).success

\* C4: tokenize and parse always return a result; a success carries the tokens
\* or the document and no error field; a failure carries the error and no
\* tokens or document; the first lexical error ends the operation; parse hands
\* on a tokenizer failure's error, errorLine and errorColumn unchanged.
C4_ErrorsAreValues ==
    pc = "called" =>
        /\ tokRes.success \in BOOLEAN /\ res1.success \in BOOLEAN
        /\ tokRes.success => SuccessShape(tokRes, "tokens")
        /\ res1.success => SuccessShape(res1, "document")
        /\ ~tokRes.success => FailureShape(tokRes) /\ FirstLexicalError(input, tokRes)
        /\ ~res1.success => FailureShape(res1)
        /\ ~tokRes.success => res1 = tokRes

C4_Witness ==
    /\ pc = "called"
    /\ ~tokRes.success
    /\ "errorLine" \in DOMAIN tokRes
    /\ tokRes.errorLine = 2
    /\ tokenize(SubSeq(input, 1, 2)).success
    /\ res1 = tokRes

(***************************************************************************)
(* Documents written from known properties.  A source property carries    *)
(* the text written for its value and the value that text stands for; a    *)
(* Block value is the tree [type, properties] of Deep.                     *)
(***************************************************************************)
MaxProps == 3

Expected(props) ==
    [i \in 1..Len(props) |->
        [key |-> props[i].key, operator |-> props[i].operator, value |-> props[i].value]]

WriteProps(props, separator) ==
    join([i \in 1..Len(props) |->
             props[i].key \o <<" ">> \o props[i].operator \o <<" ">> \o props[i].text],
         separator)

SourceProp(key, operator, item) ==
    [key |-> key, operator |-> operator, text |-> item.text, value |-> item.value]

SourceNumber(digit, n) == [text |-> <<digit>>, value |-> NumberValue(n, 0)]

SourceBlock(props) ==
    [text |-> <<"{", " ">> \o WriteProps(props, <<" ">>) \o <<" ", "}">>,
     value |-> [type |-> "Block", properties |-> Expected(props)]]

SourceKeys == {<<"a">>, <<"b">>}

InnerBlocks ==
    { SourceBlock(<<>>),
      SourceBlock(<<SourceProp(<<"b">>, <<"=">>, SourceNumber("1", 1))>>),
      SourceBlock(<<SourceProp(<<"b">>, <<"=">>, SourceNumber("1", 1)),
                    SourceProp(<<"b">>, <<"<", "=">>, SourceNumber("2", 2)),
                    SourceProp(<<"b">>, <<"=">>, SourceNumber("3", 3))>>),
      SourceBlock(<<SourceProp(<<"a">>, <<"=">>, SourceNumber("3", 3)),
                    SourceProp(<<"b">>, <<"=">>, SourceNumber("2", 2)),
                    SourceProp(<<"a">>, <<"=">>, SourceNumber("1", 1)),
                    SourceProp(<<"a">>, <<"=">>, SourceBlock(<<>>))>>) }

SourceProps ==
    {SourceProp(k, o, v) :
        k \in SourceKeys, o \in {<<"=">>, <<">">>},
        v \in {SourceNumber("1", 1), SourceNumber("2", 2)}}
    \cup {SourceProp(k, <<"=">>, b) : k \in SourceKeys, b \in InnerBlocks}

RECURSIVE SeqsUpTo(_, _)
SeqsUpTo(S, n) ==
    IF n = 0 THEN {<<>>}
    ELSE LET shorter == SeqsUpTo(S, n - 1) IN
         shorter \cup {<<x>> \o q : x \in S, q \in shorter}

Sources == SeqsUpTo(SourceProps, MaxProps) \ {<<>>}

\* Paths as their segments; the path handed to the code is the dotted text.
ParsePaths ==
    { <<<<"a">>>>, <<<<"b">>>>, <<<<"a">>, <<"b">>>>, <<<<"b">>, <<"a">>>> }

Dotted(keys) == join(keys, <<".">>)

(***************************************************************************)
(* Parsing a written document and reading it back by key.                  *)
(***************************************************************************)
InitParse ==
    /\ pc = "load"
    /\ source \in Sources
    /\ input = WriteProps(source, <<"\n">>)
    /\ options = None /\ tokRes = None /\ tokNcRes = None
    /\ res1 = None /\ out1 = None /\ res2 = None /\ out2 = None
    /\ heap = None /\ root = None /\ last = None

\* parse(input) and new ClausewitzDocument(result.document)
Load ==
    /\ pc = "load"
    /\ res1' = parse(input)
    /\ IF res1'.success
       THEN /\ heap' = res1'.heap
            /\ root' = res1'.document
            /\ pc' = "loaded"
       ELSE /\ pc' = "failed"
            /\ UNCHANGED <<heap, root>>
    /\ last' = [op |-> "load", edits |-> <<>>]
    /\ UNCHANGED <<input, options, tokRes, tokNcRes, out1, res2, out2, source>>

\* A read leaves the document as it is; the driver reads last.
GetAll(paths) ==
    /\ pc = "loaded"
    /\ \E keys \in paths :
          last' = [op |-> "getAll", keys |-> keys, path |-> Dotted(keys),
                   result |-> getAll(heap, root, Dotted(keys)),
                   before |-> heap, edits |-> last.edits]
    /\ pc' = "read"
    /\ UNCHANGED <<input, options, tokRes, tokNcRes, res1, out1, res2, out2,
                   heap, root, source>>

NextParse == Load \/ GetAll(ParsePaths)

SpecParse == InitParse /\ [][NextParse]_vars

\* The source container a dotted path leads to: the properties of the first
\* property of each key, which must be a Block; <<>> where there is none.
RECURSIVE SourceContainer(_, _)
SourceContainer(props, keys) ==
    IF Len(keys) = 0 THEN props
    ELSE LET matches == SelectSeq(props, LAMBDA q : q.key = Head(keys)) IN
         IF Len(matches) = 0 \/ "properties" \notin DOMAIN Head(matches).value
         THEN <<>>
         ELSE SourceContainer(Head(matches).value.properties, Tail(keys))

SourceValues(props, path) ==
    LET keys == split(path)
        container == SourceContainer(props, SubSeq(keys, 1, Len(keys) - 1))
    IN valuesOf(SelectSeq(container, LAMBDA q : q.key = keys[Len(keys)]))

\* C5: a container written with n well-formed properties parses to exactly
\* those n Properties in source order, duplicates of a key included, and
\* getAll on a key returns the values of its duplicates in that order.
C5_OrderAndDuplicates ==
    /\ pc # "failed"
    /\ pc \in {"loaded", "read"} =>
          /\ Deep(heap, Ref(root)).properties = Expected(source)
          /\ last.op = "getAll" =>
                DeepAll(heap, last.result) = SourceValues(Expected(source), last.path)

C5_Witness ==
    /\ pc = "read"
    /\ Len(source) = 3
    /\ \A i \in 1..3 : source[i].key = <<"a">>
    /\ last.op = "getAll"
    /\ last.path = <<"a", ".", "b">>
    /\ last.result = <<NumberValue(1, 0), NumberValue(2, 0), NumberValue(3, 0)>>
    /\ Len(getAll(heap, root, <<"a">>)) = 3

(***************************************************************************)
(* A ClausewitzDocument under edit: a parsed document, then set, add and   *)
(* removeAll calls, then one read.  A value handed to set or add is a      *)
(* primitive, a Block the caller has just made, or an object an earlier    *)
(* get returned.                                                           *)
(***************************************************************************)
MaxEdits == 2

SourceArray ==
    [text |-> <<"{", " ", "1", " ", "2", " ", "}">>,
     value |-> [type |-> "ValueArray",
                values |-> <<NumberValue(1, 0), NumberValue(2, 0)>>]]

\* a = { a = 1 b = 2 a = 3 }  b = 1  b = { a = 2 }  c = { 1 2 }
\* a = 1  a = { b = 2 }  b = { b = { a = 1 } a = 2 b = 3 }
DocSources ==
    { << SourceProp(<<"a">>, <<"=">>,
             SourceBlock(<<SourceProp(<<"a">>, <<"=">>, SourceNumber("1", 1)),
                           SourceProp(<<"b">>, <<"=">>, SourceNumber("2", 2)),
                           SourceProp(<<"a">>, <<"=">>, SourceNumber("3", 3))>>)),
         SourceProp(<<"b">>, <<"=">>, SourceNumber("1", 1)),
         SourceProp(<<"b">>, <<"=">>,
             SourceBlock(<<SourceProp(<<"a">>, <<"=">>, SourceNumber("2", 2))>>)),
         SourceProp(<<"c">>, <<"=">>, SourceArray) >>,
      << SourceProp(<<"a">>, <<"=">>, SourceNumber("1", 1)),
         SourceProp(<<"a">>, <<"=">>,
             SourceBlock(<<SourceProp(<<"b">>, <<"=">>, SourceNumber("2", 2))>>)),
         SourceProp(<<"b">>, <<"=">>,
             SourceBlock(<<SourceProp(<<"b">>, <<"=">>,
                               SourceBlock(<<SourceProp(<<"a">>, <<"=">>,
                                                 SourceNumber("1", 1))>>)),
                           SourceProp(<<"a">>, <<"=">>, SourceNumber("2", 2)),
                           SourceProp(<<"b">>, <<"=">>, SourceNumber("3", 3))>>)) >> }

DocPaths ==
    { <<<<"a">>>>, <<<<"b">>>>, <<<<"c">>>>,
      <<<<"a">>, <<"a">>>>, <<<<"a">>, <<"b">>>>,
      <<<<"b">>, <<"a">>>>, <<<<"b">>, <<"b">>>>,
      <<<<"a">>, <<"a">>, <<"a">>>>, <<<<"b">>, <<"b">>, <<"a">>>> }

SetPaths ==
    { <<<<"b">>>>, <<<<"c">>>>, <<<<"a">>, <<"a">>>>, <<<<"b">>, <<"a">>>>,
      <<<<"a">>, <<"a">>, <<"a">>>> }

ParentPaths ==
    { <<>>, <<<<"a">>>>, <<<<"b">>>>, <<<<"c">>>>, <<<<"a">>, <<"a">>>> }

EditKeys == { <<"a">>, <<"b">> }

AliasPaths == { <<<<"a">>>>, <<<<"b">>>> }

EmptyBlock == [type |-> "Block", properties |-> <<>>]

\* The values a caller can hand over, each with the heap it lives in: the
\* number 7, a new empty Block, and the objects get returns on AliasPaths.
Arguments(h, r) ==
    { [heap |-> h, value |-> NumberValue(7, 0)],
      [heap |-> Append(h, EmptyBlock), value |-> Ref(Len(h) + 1)] }
    \cup { [heap |-> h, value |-> get(h, r, Dotted(keys))] :
             keys \in {k \in AliasPaths : isRef(get(h, r, Dotted(k)))} }

InitDoc ==
    /\ pc = "load"
    /\ source \in DocSources
    /\ input = WriteProps(source, <<"\n">>)
    /\ options = None /\ tokRes = None /\ tokNcRes = None
    /\ res1 = None /\ out1 = None /\ res2 = None /\ out2 = None
    /\ heap = None /\ root = None /\ last = None

Get(paths) ==
    /\ pc = "loaded"
    /\ \E keys \in paths :
          last' = [op |-> "get", keys |-> keys, path |-> Dotted(keys),
                   result |-> get(heap, root, Dotted(keys)),
                   before |-> heap, edits |-> last.edits]
    /\ pc' = "read"
    /\ UNCHANGED <<input, options, tokRes, tokNcRes, res1, out1, res2, out2,
                   heap, root, source>>

Set ==
    /\ pc = "loaded"
    /\ Len(last.edits) < MaxEdits
    /\ \E keys \in SetPaths, arg \in Arguments(heap, root) :
          /\ heap' = set(arg.heap, root, Dotted(keys), arg.value).heap
          /\ last' = [op |-> "set", keys |-> keys, path |-> Dotted(keys),
                      value |-> arg.value,
                      result |-> set(arg.heap, root, Dotted(keys), arg.value).result,
                      before |-> arg.heap, edits |-> Append(last.edits, "set")]
    /\ UNCHANGED <<pc, input, options, tokRes, tokNcRes, res1, out1, res2, out2,
                   root, source>>

\* The operator is left out with an object value and given with the number.
Add ==
    /\ pc = "loaded"
    /\ Len(last.edits) < MaxEdits
    /\ \E parent \in ParentPaths, key \in EditKeys, arg \in Arguments(heap, root) :
          LET operator == IF isRef(arg.value) THEN <<>> ELSE <<">">> IN
          /\ heap' = add(arg.heap, root, Dotted(parent), key, arg.value, operator).heap
          /\ last' = [op |-> "add", parent |-> parent, key |-> key,
                      value |-> arg.value, operator |-> operator,
                      result |-> add(arg.heap, root, Dotted(parent), key, arg.value,
                                     operator).result,
                      before |-> arg.heap, edits |-> Append(last.edits, "add")]
    /\ UNCHANGED <<pc, input, options, tokRes, tokNcRes, res1, out1, res2, out2,
                   root, source>>

RemoveAll ==
    /\ pc = "loaded"
    /\ Len(last.edits) < MaxEdits
    /\ \E parent \in ParentPaths, key \in EditKeys :
          /\ heap' = removeAll(heap, root, Dotted(parent), key).heap
          /\ last' = [op |-> "removeAll", parent |-> parent, key |-> key,
                      result |-> removeAll(heap, root, Dotted(parent), key).result,
                      before |-> heap, edits |-> Append(last.edits, "removeAll")]
    /\ UNCHANGED <<pc, input, options, tokRes, tokNcRes, res1, out1, res2, out2,
                   root, source>>

NextDoc ==
    Load \/ Get(DocPaths) \/ GetAll(DocPaths) \/ Set \/ Add \/ RemoveAll

SpecDoc == InitDoc /\ [][NextDoc]_vars

(***************************************************************************)
(* Path access stated apart from the code: first match by key, segment by  *)
(* segment.                                                                *)
(***************************************************************************)
\* The index of the first Property of the key, 0 where there is none.
FirstOf(properties, key) ==
    LET matches == {i \in 1..Len(properties) : properties[i].key = key} IN
    IF matches = {} THEN 0
    ELSE CHOOSE i \in matches : \A j \in matches : i <= j

\* The value the segments lead to from container c; keys is not empty.
RECURSIVE Resolve(_, _, _)
Resolve(h, c, keys) ==
    LET i == FirstOf(h[c].properties, Head(keys)) IN
    IF i = 0 THEN Undefined
    ELSE IF Len(keys) = 1 THEN h[c].properties[i].value
    ELSE IF h[c].properties[i].value.kind = "ref"
            /\ h[h[c].properties[i].value.ref].type = "Block"
    THEN Resolve(h, h[c].properties[i].value.ref, Tail(keys))
    ELSE Undefined

\* The container the segments lead to: the root for no segment, the Block
\* they resolve to, 0 where they resolve to no Block.
ContainerAt(h, r, keys) ==
    IF keys = <<>> THEN r
    ELSE IF Resolve(h, r, keys).kind = "ref" /\ h[Resolve(h, r, keys).ref].type = "Block"
    THEN Resolve(h, r, keys).ref
    ELSE 0

Front(keys) == SubSeq(keys, 1, Len(keys) - 1)

\* The values of the Properties of the key, in container order.
RECURSIVE ValuesWithKey(_, _)
ValuesWithKey(properties, key) ==
    IF Len(properties) = 0 THEN <<>>
    ELSE (IF Head(properties).key = key THEN <<Head(properties).value>> ELSE <<>>)
         \o ValuesWithKey(Tail(properties), key)

\* The Properties of another key, in container order.
RECURSIVE OthersThan(_, _)
OthersThan(properties, key) ==
    IF Len(properties) = 0 THEN <<>>
    ELSE (IF Head(properties).key = key THEN <<>> ELSE <<Head(properties)>>)
         \o OthersThan(Tail(properties), key)

\* Heap h1 is h0 but for the properties of node c.
OnlyPropertiesOf(h0, h1, c) ==
    /\ Len(h1) = Len(h0)
    /\ \A n \in 1..Len(h0) : n # c => h1[n] = h0[n]
    /\ [h1[c] EXCEPT !.properties = h0[c].properties] = h0[c]

\* C6: get(path) resolves each segment against the first Property of the
\* current container with that key, returns that Property's value at the
\* last segment, and returns undefined where a segment has no match or the
\* first match of a segment before the last is not a Block.
C6_GetFirstMatch ==
    (pc = "read" /\ last.op = "get") =>
        last.result = Resolve(heap, root, last.keys)

\* get("b.a") is undefined although a later duplicate of b is a Block with a.
C6_Witness ==
    /\ pc = "read" /\ last.op = "get"
    /\ last.keys = << <<"b">>, <<"a">> >>
    /\ last.result = Undefined
    /\ \E i \in 2..Len(heap[root].properties) :
          /\ heap[root].properties[i].key = <<"b">>
          /\ isBlock(heap, heap[root].properties[i].value)
          /\ \E j \in 1..Len(heap[heap[root].properties[i].value.ref].properties) :
                heap[heap[root].properties[i].value.ref].properties[j].key = <<"a">>

\* C7: getAll(path) resolves all segments but the last as get does and
\* returns the values of every Property of that container with the last
\* segment as key, in container order, one entry per duplicate; it returns
\* the empty sequence where the parent path resolves to no Block or no
\* Property has the key.
C7_GetAllInOrder ==
    (pc = "read" /\ last.op = "getAll") =>
        LET c == ContainerAt(heap, root, Front(last.keys)) IN
        last.result =
            IF c = 0 THEN <<>>
            ELSE ValuesWithKey(heap[c].properties, last.keys[Len(last.keys)])

C7_Witness ==
    /\ pc = "read" /\ last.op = "getAll"
    /\ last.keys = << <<"a">>, <<"a">> >>
    /\ Len(last.result) = 3
    /\ last.result[1] # last.result[2]

\* C8: set(path, value) returns true exactly when get(path) finds a
\* Property; then get(path) returns the new value afterwards and only the
\* value of that first matching Property has changed: its key and operator,
\* every other Property and the length and order of every properties
\* sequence are as before; when it returns false the document is unchanged.
C8_SetFrame ==
    (pc = "loaded" /\ last.op = "set") =>
        LET h0 == last.before
            c == ContainerAt(h0, root, Front(last.keys))
            i == IF c = 0 THEN 0
                 ELSE FirstOf(h0[c].properties, last.keys[Len(last.keys)])
        IN /\ last.result = (get(h0, root, last.path) # Undefined)
           /\ last.result =>
                 /\ i # 0
                 /\ get(heap, root, last.path) = last.value
                 /\ OnlyPropertiesOf(h0, heap, c)
                 /\ heap[c].properties =
                       [h0[c].properties EXCEPT ![i].value = last.value]
           /\ ~last.result => heap = h0

\* C9: add(parentPath, key, value, operator) returns true exactly when
\* parentPath is empty or get(parentPath) is a Block; it then appends the one
\* Property {key, operator ('=' when left out), value} as the last element
\* of that container and changes nothing else, and getAll of the key in that
\* container grows by the new value at its end; otherwise it returns false
\* and the document is unchanged.
C9_AddAppends ==
    (pc = "loaded" /\ last.op = "add") =>
        LET h0 == last.before
            resolves == last.parent = <<>>
                        \/ isBlock(h0, get(h0, root, Dotted(last.parent)))
            c == IF last.parent = <<>> THEN root
                 ELSE get(h0, root, Dotted(last.parent)).ref
            keyPath == Dotted(Append(last.parent, last.key))
        IN /\ last.result = resolves
           /\ resolves =>
                 /\ OnlyPropertiesOf(h0, heap, c)
                 /\ Len(heap[c].properties) = Len(h0[c].properties) + 1
                 /\ SubSeq(heap[c].properties, 1, Len(h0[c].properties))
                       = h0[c].properties
                 /\ heap[c].properties[Len(heap[c].properties)] =
                       [type |-> "Property", key |-> last.key,
                        operator |-> IF last.operator = <<>> THEN <<"=">>
                                     ELSE last.operator,
                        value |-> last.value]
                 /\ getAll(heap, root, keyPath)
                       = Append(getAll(h0, root, keyPath), last.value)
           /\ ~resolves => heap = h0

\* add with the operator left out, on a key the container holds twice already.
C9_Witness ==
    /\ pc = "loaded" /\ last.op = "add"
    /\ last.result
    /\ last.parent = << <<"a">> >>
    /\ last.operator = <<>>
    /\ Len(getAll(heap, root, Dotted(Append(last.parent, last.key)))) = 3
    /\ getAll(heap, root, Dotted(Append(last.parent, last.key)))[3] = last.value

\* C10: removeAll(parentPath, key) removes from the resolved container every
\* Property of the key, keeps the other Properties of that container in their
\* order (those add appended included), returns the number removed and
\* leaves every other container untouched; afterwards getAll of the key in
\* that container is empty and the same call again returns 0; where
\* parentPath resolves to no Block it returns 0 and changes nothing.
C10_RemoveAll ==
    (pc = "loaded" /\ last.op = "removeAll") =>
        LET h0 == last.before
            resolves == last.parent = <<>>
                        \/ isBlock(h0, get(h0, root, Dotted(last.parent)))
            c == IF last.parent = <<>> THEN root
                 ELSE get(h0, root, Dotted(last.parent)).ref
        IN /\ resolves =>
                 /\ OnlyPropertiesOf(h0, heap, c)
                 /\ heap[c].properties = OthersThan(h0[c].properties, last.key)
                 /\ last.result =
                       Cardinality({i \in 1..Len(h0[c].properties) :
                                       h0[c].properties[i].key = last.key})
                 /\ getAll(heap, root, Dotted(Append(last.parent, last.key))) = <<>>
                 /\ removeAll(heap, root, Dotted(last.parent), last.key).result = 0
           /\ ~resolves => (last.result = 0 /\ heap = h0)

\* Two duplicates removed from a Block that keeps the Property add appended.
C10_Witness ==
    /\ pc = "loaded" /\ last.op = "removeAll"
    /\ last.edits = <<"add", "removeAll">>
    /\ last.parent = << <<"a">> >>
    /\ last.result = 2
    /\ isBlock(heap, get(heap, root, <<"a">>))
    /\ Len(heap[get(heap, root, <<"a">>).ref].properties) = 2
    /\ heap[get(heap, root, <<"a">>).ref].properties[2].operator = <<">">>

(***************************************************************************)
(* Sharing of objects in the document under edit.                          *)
(***************************************************************************)
\* The objects the Properties of node m refer to.
ChildrenOf(h, m) ==
    IF h[m].type = "ValueArray" THEN {}
    ELSE {h[m].properties[i].value.ref :
             i \in {j \in 1..Len(h[m].properties) : h[m].properties[j].value.kind = "ref"}}

\* The nodes of the tree: those reached from the nodes seen.
RECURSIVE ReachableFrom(_, _)
ReachableFrom(h, seen) ==
    IF UNION {ChildrenOf(h, m) : m \in seen} \subseteq seen THEN seen
    ELSE ReachableFrom(h, seen \cup UNION {ChildrenOf(h, m) : m \in seen})

\* The places of the tree that refer to node n: <<node, index of the Property>>.
HoldersOf(h, r, n) ==
    UNION {{<<m, i>> : i \in {j \in 1..Len(h[m].properties) :
                                h[m].properties[j].value = Ref(n)}}
           : m \in {k \in ReachableFrom(h, {r}) : h[k].type # "ValueArray"}}

\* C11: in every state reached from a parsed Document by set, add and
\* removeAll calls, whose value arguments may be objects that get returned,
\* no Block or ValueArray is referenced from two places of the tree.
C11_NoAliasing ==
    pc = "loaded" =>
        \A n \in 1..Len(heap) : Cardinality(HoldersOf(heap, root, n)) <= 1

(***************************************************************************)
(* Braces of the source and objects of the parsed Document.                *)
(***************************************************************************)
\* The places <<line, column>> of the tokens of a type.
PlacesOf(tokens, type) ==
    {<<tokens[i].line, tokens[i].column>> :
        i \in {j \in 1..Len(tokens) : tokens[j].type = type}}

\* The Block and ValueArray nodes of a heap.
BraceNodes(h) == {n \in 1..Len(h) : h[n].type \in {"Block", "ValueArray"}}

\* Every brace of the tokens has its partner: no `}` without an open `{`
\* before it, no `{` left open at the end.
RECURSIVE Balanced(_, _)
Balanced(tokens, open) ==
    IF Len(tokens) = 0 THEN open = 0
    ELSE IF Head(tokens).type = "LeftBrace" THEN Balanced(Tail(tokens), open + 1)
    ELSE IF Head(tokens).type = "RightBrace"
    THEN open > 0 /\ Balanced(Tail(tokens), open - 1)
    ELSE Balanced(Tail(tokens), open)

\* C12: in every Document of a successful parse the Block and ValueArray
\* nodes correspond one to one with the matched brace pairs of the source:
\* every `{` of the source opens exactly one node, every brace has its
\* partner, and there are as many `}` as nodes.
C12_BraceCorrespondence ==
    (pc = "called" /\ res1.success) =>
        /\ {<<res1.heap[n].line, res1.heap[n].column>> : n \in BraceNodes(res1.heap)}
              = PlacesOf(tokRes.tokens, "LeftBrace")
        /\ Cardinality(BraceNodes(res1.heap))
              = Cardinality(PlacesOf(tokRes.tokens, "LeftBrace"))
        /\ Cardinality(BraceNodes(res1.heap))
              = Cardinality(PlacesOf(tokRes.tokens, "RightBrace"))
        /\ Balanced(tokRes.tokens, 0)

(***************************************************************************)
(* The token sequence of a successful tokenize.                            *)
(***************************************************************************)
\* The line and the column reached after the last character of the text.
RECURSIVE EndPlace(_, _, _)
EndPlace(text, line, column) ==
    IF Len(text) = 0 THEN <<line, column>>
    ELSE IF Head(text) = "\n" THEN EndPlace(Tail(text), line + 1, 1)
    ELSE EndPlace(Tail(text), line, column + 1)

\* Place p comes before place q in the text.
Before(p, q) == p[1] < q[1] \/ (p[1] = q[1] /\ p[2] < q[2])

\* C13: every successful tokenize result is in source order and holds
\* exactly one EOF token, the last one, with an empty literal and with the
\* line and column reached after the final character of the input.
C13_OneEofLast ==
    (pc = "called" /\ tokRes.success) =>
        LET tokens == tokRes.tokens IN
        /\ Len(tokens) >= 1
        /\ tokens[Len(tokens)].type = "EOF"
        /\ tokens[Len(tokens)].value = <<>>
        /\ <<tokens[Len(tokens)].line, tokens[Len(tokens)].column>>
              = EndPlace(input, 1, 1)
        /\ \A i \in 1..(Len(tokens) - 1) :
              /\ tokens[i].type # "EOF"
              /\ Before(<<tokens[i].line, tokens[i].column>>,
                        <<tokens[i + 1].line, tokens[i + 1].column>>)

\* Three tokens on two lines and the EOF token after the last character.
C13_Witness ==
    /\ pc = "called" /\ tokRes.success
    /\ Len(tokRes.tokens) = 4
    /\ tokRes.tokens[4].type = "EOF"
    /\ tokRes.tokens[4].line = 2
    /\ tokRes.tokens[4].column = 3

(***************************************************************************)
(* Strings left open.                                                      *)
(***************************************************************************)
NoString == [line |-> 0, offset |-> 0]

\* The string still open at the end of the text: the line of its opening
\* quote and the number of characters before it, NoString where every string
\* is closed.  A `#` outside a string starts a comment up to the end of its
\* line, and `\"` inside a string does not close it.
RECURSIVE OpenString(_, _, _, _, _)
OpenString(text, i, line, mode, open) ==
    IF i > Len(text) THEN (IF mode = "string" THEN open ELSE NoString)
    ELSE IF mode = "string"
    THEN IF text[i] = "\\" /\ i < Len(text) /\ text[i + 1] = "\""
         THEN OpenString(text, i + 2, line, "string", open)
         ELSE IF text[i] = "\"" THEN OpenString(text, i + 1, line, "code", open)
         ELSE OpenString(text, i + 1, IF text[i] = "\n" THEN line + 1 ELSE line,
                         "string", open)
    ELSE IF text[i] = "\n" THEN OpenString(text, i + 1, line + 1, "code", open)
    ELSE IF mode = "comment" THEN OpenString(text, i + 1, line, "comment", open)
    ELSE IF text[i] = "#" THEN OpenString(text, i + 1, line, "comment", open)
    ELSE IF text[i] = "\""
    THEN OpenString(text, i + 1, line, "string", [line |-> line, offset |-> i - 1])
    ELSE OpenString(text, i + 1, line, "code", open)

\* The text ends inside a string, and nothing before that string is in error.
EndsInString(text) ==
    /\ OpenString(text, 1, 1, "code", NoString) # NoString
    /\ \/ \A i \in 1..OpenString(text, 1, 1, "code", NoString).offset :
             text[i] \in {" ", "\t", "\r", "\n"}
       \/ tokenize(SubSeq(text, 1, OpenString(text, 1, 1, "code", NoString).offset)).success

\* C14: for every input that ends inside a string, tokenize and parse fail
\* with an 'Unterminated string' error whose errorLine is the line of the
\* opening quote of that string.
C14_UnterminatedString ==
    (pc = "called" /\ EndsInString(input)) =>
        /\ ~tokRes.success
        /\ tokRes.error.msg = "Unterminated string starting"
        /\ tokRes.errorLine = OpenString(input, 1, 1, "code", NoString).line
        /\ ~res1.success
        /\ res1.error = tokRes.error
        /\ res1.errorLine = tokRes.errorLine

(***************************************************************************)
(* Round trip of documents written with each operator spelling.            *)
(***************************************************************************)
MaxOperatorProps == 2

Spellings ==
    { <<"=">>, <<"<">>, <<">">>, <<"<", "=">>, <<">", "=">>, <<"!", "=">>,
      <<"<", ">">> }

\* a op 1, a op { b op 2 } and a op { b op { b op 3 } } for each spelling,
\* and the two spellings of NotEqual one inside the other.
OperatorProps ==
    UNION {
        { SourceProp(<<"a">>, op, SourceNumber("1", 1)),
          SourceProp(<<"a">>, op,
              SourceBlock(<<SourceProp(<<"b">>, op, SourceNumber("2", 2))>>)),
          SourceProp(<<"a">>, op,
              SourceBlock(<<SourceProp(<<"b">>, op,
                  SourceBlock(<<SourceProp(<<"b">>, op, SourceNumber("3", 3))>>))>>)) }
        : op \in Spellings }
    \cup
    { SourceProp(<<"a">>, <<"<", ">">>,
          SourceBlock(<<SourceProp(<<"b">>, <<"!", "=">>, SourceNumber("2", 2))>>)),
      SourceProp(<<"a">>, <<"!", "=">>,
          SourceBlock(<<SourceProp(<<"b">>, <<"<", ">">>, SourceNumber("2", 2))>>)) }

OperatorSources == SeqsUpTo(OperatorProps, MaxOperatorProps) \ {<<>>}

InitOperators ==
    /\ pc = "parse"
    /\ source \in OperatorSources
    /\ input = WriteProps(source, <<"\n">>)
    /\ options = None /\ tokRes = None /\ tokNcRes = None
    /\ res1 = None /\ out1 = None /\ res2 = None /\ out2 = None
    /\ heap = None /\ root = None /\ last = None

SpecOperators == InitOperators /\ [][NextRoundTrip]_vars

\* The spellings of the operator tokens, in order.
RECURSIVE SpellingsIn(_)
SpellingsIn(tokens) ==
    IF Len(tokens) = 0 THEN <<>>
    ELSE (IF Head(tokens).type \in {"Equals", "LessThan", "GreaterThan",
                                    "LessThanOrEqual", "GreaterThanOrEqual",
                                    "NotEqual"}
          THEN <<Head(tokens).value>> ELSE <<>>)
         \o SpellingsIn(Tail(tokens))

\* The spellings the source properties were written with, in writing order.
RECURSIVE SpellingsOf(_)
SpellingsOf(props) ==
    IF Len(props) = 0 THEN <<>>
    ELSE <<Head(props).operator>>
         \o (IF "properties" \in DOMAIN Head(props).value
             THEN SpellingsOf(Head(props).value.properties) ELSE <<>>)
         \o SpellingsOf(Tail(props))

\* C15: each of the seven operator spellings parses to a Property whose
\* operator is that spelling, stringify writes the stored spelling, and
\* parsing the output stores the same spelling.  Stated for the options
\* whose indentation is whitespace.
C15_OperatorSpelling ==
    /\ pc \notin {"failed"}
    /\ pc \in {"stringify", "reparse", "restringify", "refused", "done"} =>
          Deep(res1.heap, Ref(res1.document)).properties = Expected(source)
    /\ (pc \in {"reparse", "restringify", "refused", "done"} /\ WhitespaceIndent) =>
          /\ tokenize(out1).success
          /\ SpellingsIn(tokenize(out1).tokens) = SpellingsOf(Expected(source))
    /\ (pc \in {"restringify", "refused", "done"} /\ WhitespaceIndent) =>
          /\ res2.success
          /\ Deep(res2.heap, Ref(res2.document)).properties = Expected(source)

\* <> at the top level and != inside, through parse, stringify and parse.
C15_Witness ==
    /\ pc = "done"
    /\ Len(source) = 2
    /\ SpellingsOf(Expected(source)) = << <<"<", ">">>, <<"!", "=">>, <<">", "=">> >>
    /\ SpellingsIn(tokenize(out1).tokens) = SpellingsOf(Expected(source))
    /\ options = <<>>

(***************************************************************************)
(* Rendering of one Block or ValueArray: a = { ... } through parse and     *)
(* stringify.                                                              *)
(***************************************************************************)
MaxInline == 4

SourceYes == [text |-> yesText, value |-> BooleanValue(TRUE)]

SourceEmptyBlock ==
    [text |-> <<"{", " ", "}">>, value |-> [type |-> "Block", properties |-> <<>>]]

\* A ValueArray of n ones.
SourceArrayOf(n) ==
    [text |-> <<"{", " ">> \o repeat(<<"1", " ">>, n) \o <<"}">>,
     value |-> [type |-> "ValueArray", values |-> [i \in 1..n |-> NumberValue(1, 0)]]]

InlineItems ==
    { SourceNumber("1", 1), SourceYes, SourceArrayOf(2), SourceEmptyBlock,
      SourceBlock(<<SourceProp(<<"b">>, <<"=">>, SourceNumber("2", 2))>>),
      SourceBlock(<<SourceProp(<<"b">>, <<"=">>, SourceNumber("1", 1)),
                    SourceProp(<<"b">>, <<"=">>, SourceNumber("2", 2)),
                    SourceProp(<<"b">>, <<"=">>, SourceNumber("3", 3)),
                    SourceProp(<<"b">>, <<">">>, SourceYes)>>) }

InlineSources ==
    { <<SourceProp(<<"a">>, <<"=">>, SourceBlock(props))>> :
         props \in SeqsUpTo({SourceProp(<<"b">>, <<"=">>, item) : item \in InlineItems},
                            MaxInline) }
    \cup { <<SourceProp(<<"a">>, <<"=">>, SourceArrayOf(n))>> : n \in 1..(MaxInline + 1) }

InitInline ==
    /\ pc = "parse"
    /\ source \in InlineSources
    /\ input = WriteProps(source, <<"\n">>)
    /\ options = None /\ tokRes = None /\ tokNcRes = None
    /\ res1 = None /\ out1 = None /\ res2 = None /\ out2 = None
    /\ heap = None /\ root = None /\ last = None

SpecInline == InitInline /\ [][NextRoundTrip]_vars

\* What the caller's options make one level of indentation.
IndentOf(opts) ==
    IF "spaces" \in DOMAIN opts THEN [i \in 1..opts.spaces |-> " "]
    ELSE IF "indent" \in DOMAIN opts THEN opts.indent
    ELSE <<"\t">>

IsPrimitive(value) == "kind" \in DOMAIN value

\* The text of a one-digit number or of a boolean.
Shown(value) ==
    IF value.kind = "number" THEN <<digitChar(value.num)>>
    ELSE IF value.bool THEN yesText ELSE noText

FitsOneLine(value) ==
    \/ IsPrimitive(value)
    \/ value.type = "ValueArray"
    \/ /\ value.type = "Block"
       /\ Len(value.properties) <= 3
       /\ \A i \in 1..Len(value.properties) : IsPrimitive(value.properties[i].value)

\* The rendering the inline threshold prescribes for a value written at depth.
RECURSIVE Rendering(_, _, _)
Rendering(value, depth, indent) ==
    IF IsPrimitive(value) THEN Shown(value)
    ELSE IF value.type = "ValueArray"
    THEN <<"{", " ">>
         \o join([i \in 1..Len(value.values) |-> Shown(value.values[i])], <<" ">>)
         \o <<" ", "}">>
    ELSE IF Len(value.properties) = 0 THEN <<"{", " ", "}">>
    ELSE IF FitsOneLine(value)
    THEN <<"{", " ">>
         \o join([i \in 1..Len(value.properties) |->
                     value.properties[i].key \o <<" ">> \o value.properties[i].operator
                     \o <<" ">> \o Shown(value.properties[i].value)], <<" ">>)
         \o <<" ", "}">>
    ELSE <<"{", "\n">>
         \o join([i \in 1..Len(value.properties) |->
                     repeat(indent, depth + 1)
                     \o value.properties[i].key \o <<" ">> \o value.properties[i].operator
                     \o <<" ">> \o Rendering(value.properties[i].value, depth + 1, indent)],
                 <<"\n">>)
         \o <<"\n">> \o repeat(indent, depth) \o <<"}">>

OneLine(text) == \A i \in 1..Len(text) : text[i] # "\n"

Stringified == pc \in {"reparse", "restringify", "refused", "done"}

\* C16: stringify writes an empty Block as { }, a Block of 1 to 3 Properties
\* with primitive values on one line as { k1 op1 v1 ... }, a Block of 4 or
\* more Properties or with a Property holding a Block or a ValueArray on
\* several lines (one Property a line, indented by its depth), and a
\* ValueArray on one line whatever its length.
C16_InlineThreshold ==
    /\ pc # "failed"
    /\ Stringified =>
          /\ Deep(res1.heap, Ref(res1.document)).properties = Expected(source)
          /\ out1 = <<"a", " ", "=", " ">>
                    \o Rendering(source[1].value, 0, IndentOf(options))
          /\ OneLine(out1) <=> FitsOneLine(source[1].value)

C16_Witness ==
    /\ Stringified
    /\ source[1].value.type = "Block"
    /\ Len(source[1].value.properties) = 3
    /\ out1 = <<"a", " ", "=", " ", "{", " ", "b", " ", "=", " ", "1", " ",
                "b", " ", "=", " ", "y", "e", "s", " ", "b", " ", "=", " ", "1",
                " ", "}">>

(***************************************************************************)
(* One group: a = { followed by up to MaxInner tokens and, or not, by }.   *)
(***************************************************************************)
MaxInner == 3

quotedText == <<"\"", "s", "\"">>

NumberOrBooleanTexts == {<<"1">>, yesText}

OperatorTexts == {<<"=">>, <<"<">>}

InnerTexts == NumberOrBooleanTexts \cup OperatorTexts \cup {<<"a">>, quotedText}

GroupPrefix == <<"a", " ", "=", " ", "{", " ">>

GroupSources == [inner : SeqsUpTo(InnerTexts, MaxInner), closed : BOOLEAN]

GroupText(group) ==
    GroupPrefix \o join(group.inner, <<" ">>)
    \o (IF group.closed THEN <<" ", "}">> ELSE <<>>)

InitGroups ==
    /\ pc = "tokenize"
    /\ source \in GroupSources
    /\ input = GroupText(source)
    /\ options = None /\ tokRes = None /\ tokNcRes = None
    /\ res1 = None /\ out1 = None /\ res2 = None /\ out2 = None
    /\ heap = None /\ root = None /\ last = None

SpecGroups == InitGroups /\ [][NextCalls]_vars

\* The policy: not closed at once, a Number or Boolean first, no operator second.
ArrayPolicy(inner) ==
    /\ Len(inner) >= 1
    /\ inner[1] \in NumberOrBooleanTexts
    /\ Len(inner) >= 2 => inner[2] \notin OperatorTexts

\* The value a token of InnerTexts stands for when it is read as a value.
ValueOfText(text) ==
    IF text = <<"1">> THEN NumberValue(1, 0)
    ELSE IF text = yesText THEN BooleanValue(TRUE)
    ELSE IF text = quotedText THEN StringValue(<<"s">>)
    ELSE StringValue(text)

\* How many tokens stand before the first operator token.
RECURSIVE RunLen(_)
RunLen(inner) ==
    IF inner = <<>> \/ Head(inner) \in OperatorTexts THEN 0
    ELSE 1 + RunLen(Tail(inner))

\* The column of the i-th inner token, or of the end of the input.
RECURSIVE ColumnOfInner(_, _, _)
ColumnOfInner(text, inner, i) ==
    IF i > Len(inner) THEN Len(text) + 1
    ELSE IF i = 1 THEN Len(GroupPrefix) + 1
    ELSE ColumnOfInner(text, inner, i - 1) + Len(inner[i - 1]) + 1

ExpectedBraceAt(result, column) ==
    /\ ~result.success
    /\ result.error = [msg |-> "Expected '}'", line |-> 1, column |-> column]
    /\ result.errorLine = 1 /\ result.errorColumn = column

HoldsOneValue(result, value) ==
    /\ result.success
    /\ Deep(result.heap, Ref(result.document)).properties
          = <<[key |-> <<"a">>, operator |-> <<"=">>, value |-> value]>>

\* The group read as a ValueArray: the values up to the first operator token,
\* and then } expected.
ArrayOutcome(text, group, result) ==
    LET run == RunLen(group.inner) IN
    IF run = Len(group.inner) /\ group.closed
    THEN HoldsOneValue(result,
             [type |-> "ValueArray",
              values |-> [i \in 1..run |-> ValueOfText(group.inner[i])]])
    ELSE ExpectedBraceAt(result,
             IF run < Len(group.inner) THEN ColumnOfInner(text, group.inner, run + 1)
             ELSE Len(text) + 1)

\* The group read as a Block: what the property rules make of the same tokens
\* at the top level (rules), Len(GroupPrefix) columns further right.
BlockOutcome(text, group, result, rules) ==
    IF rules.success
    THEN IF group.closed
         THEN HoldsOneValue(result,
                  [type |-> "Block",
                   properties |-> Deep(rules.heap, Ref(rules.document)).properties])
         ELSE ExpectedBraceAt(result, Len(text) + 1)
    ELSE /\ ~result.success
         /\ result.error
               = [rules.error EXCEPT !.column = @ + Len(GroupPrefix)]
         /\ result.errorLine = rules.errorLine
         /\ result.errorColumn = rules.errorColumn + Len(GroupPrefix)

\* The property rules applied to the inner tokens at the top level.
TopLevelRules(text, group) ==
    IF group.inner = <<>>
    THEN [success |-> TRUE, document |-> 1,
          heap |-> <<[type |-> "Document", properties |-> <<>>]>>]
    ELSE parse(SubSeq(text, Len(GroupPrefix) + 1, Len(text)))

MaxStrayProps == 2

MaxWraps == 2

StrayTexts == NumberOrBooleanTexts \cup OperatorTexts \cup {quotedText}

StrayItems ==
    { SourceProp(<<"a">>, <<"=">>, SourceNumber("1", 1)),
      SourceProp(<<"b">>, <<">">>, [text |-> quotedText, value |-> StringValue(<<"s">>)]),
      SourceProp(<<"b">>, <<"=">>,
          SourceBlock(<<SourceProp(<<"a">>, <<"=">>, SourceNumber("2", 2))>>)) }

\* props with the stray token after the first place of them.
StraySources ==
    { [props |-> props, place |-> place, stray |-> stray, wraps |-> wraps] :
         props \in SeqsUpTo(StrayItems, MaxStrayProps) \ {<<>>},
         place \in 0..MaxStrayProps, stray \in StrayTexts, wraps \in 0..MaxWraps }

PropTexts(props) ==
    [i \in 1..Len(props) |->
        props[i].key \o <<" ">> \o props[i].operator \o <<" ">> \o props[i].text]

\* text in wraps Blocks: c = { c = { text } }.
RECURSIVE WrapText(_, _)
WrapText(text, wraps) ==
    IF wraps = 0 THEN text
    ELSE WrapText(<<"c", " ", "=", " ", "{", " ">> \o text \o <<" ", "}">>, wraps - 1)

RECURSIVE WrapProps(_, _)
WrapProps(props, wraps) ==
    IF wraps = 0 THEN props
    ELSE WrapProps(<<[key |-> <<"c">>, operator |-> <<"=">>,
                      value |-> [type |-> "Block", properties |-> props]]>>, wraps - 1)

StrayText(s) ==
    WrapText(join(SubSeq(PropTexts(s.props), 1, s.place) \o <<s.stray>>
                  \o SubSeq(PropTexts(s.props), s.place + 1, Len(s.props)), <<" ">>),
             s.wraps)

InitStray ==
    /\ pc = "tokenize"
    /\ source \in {s \in StraySources : s.place <= Len(s.props)}
    /\ input = StrayText(source)
    /\ options = None /\ tokRes = None /\ tokNcRes = None
    /\ res1 = None /\ out1 = None /\ res2 = None /\ out2 = None
    /\ heap = None /\ root = None /\ last = None

SpecStray == InitStray /\ [][NextCalls]_vars

\* parse succeeded with the properties of the source, the stray token gone.
StrayDiscarded ==
    /\ res1.success
    /\ Deep(res1.heap, Ref(res1.document)).properties
          = WrapProps(Expected(source.props), source.wraps)

\* C18 as stated: a stray String, Number, Boolean or operator token before,
\* between or after the properties of the root or of any Block is discarded.
C18_StrayTolerance == pc = "called" => StrayDiscarded

\* A Number or Boolean that opens a Block makes the group a ValueArray.
OpensGroup(s) == s.wraps >= 1 /\ s.place = 0 /\ s.stray \in NumberOrBooleanTexts

\* C18 amended: the stray token is discarded unless it is a Number or
\* Boolean before the first property of a Block; there the group is read as
\* a ValueArray and parse fails with Expected '}' at the first property's
\* operator.
C18_StrayToleranceButFirstInBlock ==
    pc = "called" =>
        IF OpensGroup(source)
        THEN ExpectedBraceAt(res1,
                 6 * source.wraps + Len(source.stray) + Len(source.props[1].key) + 3)
        ELSE StrayDiscarded

C18_Witness ==
    /\ pc = "called"
    /\ source.wraps = 1 /\ source.place = 1 /\ Len(source.props) = 2
    /\ source.stray = <<"1">>
    /\ StrayDiscarded

(***************************************************************************)
(* Number literals -?digits(.digits)? as a property value, as a ValueArray *)
(* element and as a property value in a Block.                             *)
(***************************************************************************)
MaxWhole == 2

MaxFraction == 2

NumberSources ==
    [negative : BOOLEAN,
     whole : SeqsUpTo({"0", "1", "2"}, MaxWhole) \ {<<>>},
     fraction : SeqsUpTo({"0", "5"}, MaxFraction),
     position : {"value", "element", "inner"}]

LiteralText(n) ==
    (IF n.negative THEN <<"-">> ELSE <<>>) \o n.whole
    \o (IF n.fraction = <<>> THEN <<>> ELSE <<".">> \o n.fraction)

\* The document text around a number text, by position.
AroundNumber(position, text) ==
    IF position = "value" THEN <<"a", " ", "=", " ">> \o text
    ELSE IF position = "element"
    THEN <<"a", " ", "=", " ", "{", " ", "1", " ">> \o text \o <<" ", "}">>
    ELSE <<"a", " ", "=", " ", "{", " ", "b", " ", "=", " ">> \o text \o <<" ", "}">>

InitNumbers ==
    /\ pc = "parse"
    /\ source \in NumberSources
    /\ input = AroundNumber(source.position, LiteralText(source))
    /\ options = None /\ tokRes = None /\ tokNcRes = None
    /\ res1 = None /\ out1 = None /\ res2 = None /\ out2 = None
    /\ heap = None /\ root = None /\ last = None

SpecNumbers == InitNumbers /\ [][NextRoundTrip]_vars

\* The natural number a sequence of digits writes.
RECURSIVE Natural(_)
Natural(digits) ==
    IF digits = <<>> THEN 0
    ELSE 10 * Natural(SubSeq(digits, 1, Len(digits) - 1))
         + digitValue(digits[Len(digits)])

RECURSIVE WithoutLeadingZeros(_)
WithoutLeadingZeros(digits) ==
    IF Len(digits) > 1 /\ Head(digits) = "0" THEN WithoutLeadingZeros(Tail(digits))
    ELSE digits

RECURSIVE WithoutTrailingZeros(_)
WithoutTrailingZeros(digits) ==
    IF digits # <<>> /\ digits[Len(digits)] = "0"
    THEN WithoutTrailingZeros(SubSeq(digits, 1, Len(digits) - 1))
    ELSE digits

\* The number the literal writes: an integer when the fraction is all zeros.
WrittenNumber(n) ==
    LET fraction == WithoutTrailingZeros(n.fraction)
        magnitude == Natural(n.whole) * pow10(Len(fraction)) + Natural(fraction)
    IN NumberValue(IF n.negative THEN 0 - magnitude ELSE magnitude, Len(fraction))

\* Its decimal text: no point when the fraction is all zeros.
WrittenText(n) ==
    LET fraction == WithoutTrailingZeros(n.fraction) IN
    (IF n.negative /\ WrittenNumber(n).num # 0 THEN <<"-">> ELSE <<>>)
    \o WithoutLeadingZeros(n.whole)
    \o (IF fraction = <<>> THEN <<>> ELSE <<".">> \o fraction)

\* The number parse stored for the literal of the source.
ParsedNumber(h, document, position) ==
    LET value == h[document].properties[1].value IN
    IF position = "value" THEN value
    ELSE IF position = "element" THEN h[value.ref].values[2]
    ELSE h[value.ref].properties[1].value

SameNumberIn(number, position, result) ==
    result.success /\ number = ParsedNumber(result.heap, result.document, position)

\* C19: a Number literal whose fraction digits are all zero parses to the
\* integer written without the fraction and is rendered with no decimal
\* point; a literal with a non-zero fraction keeps it in the value and in
\* the rendering; 0 parses to the integer 0; alike for property values and
\* ValueArray elements.
C19_NumericNormalisation ==
    /\ pc # "failed"
    /\ pc \in {"stringify", "reparse", "restringify", "refused", "done"} =>
          LET number == ParsedNumber(res1.heap, res1.document, source.position) IN
          /\ number = WrittenNumber(source)
          /\ WithoutTrailingZeros(source.fraction) = <<>> =>
                /\ number = NumberValue(
                      IF source.negative THEN 0 - Natural(source.whole)
                      ELSE Natural(source.whole), 0)
                /\ SameNumberIn(number, source.position,
                      parse(AroundNumber(source.position,
                                LiteralText([source EXCEPT !.fraction = <<>>]))))
    /\ Stringified =>
          /\ out1 = AroundNumber(source.position, WrittenText(source))
          /\ WithoutTrailingZeros(source.fraction) = <<>> =>
                \A i \in 1..Len(out1) : out1[i] # "."

C19_Witness ==
    /\ Stringified
    /\ source = [negative |-> TRUE, whole |-> <<"2">>, fraction |-> <<"0", "0">>,
                 position |-> "element"]
    /\ ParsedNumber(res1.heap, res1.document, "element") = NumberValue(0 - 2, 0)
    /\ out1 = <<"a", " ", "=", " ", "{", " ", "1", " ", "-", "2", " ", "}">>

(***************************************************************************)
(* Documents with up to MaxComments comments, each after a token or before *)
(* the first, running to the end of its line.                              *)
(***************************************************************************)
MaxComments == 2

hashText == <<"\"", "#", "s", "\"">>

CommentBases ==
    { <<<<"a">>, <<"=">>, <<"1">>>>,
      <<<<"a">>, <<"=">>, <<"{">>, <<"b">>, <<"<">>, <<"2">>, <<"}">>>>,
      <<<<"a">>, <<"=">>, <<"{">>, <<"1">>, <<"2">>, <<"}">>>>,
      <<<<"a">>, <<"=">>, hashText, <<"b">>, <<"=">>, yesText>>,
      <<<<"a">>, <<"1">>>>,
      <<<<"a">>, <<"=">>, <<"{">>, <<"b">>, <<"=">>>>,
      <<<<"a">>, <<"=">>, <<"!">>>> }

CommentTexts ==
    { <<"#">>, <<"#", " ", "c", " ", "=", " ", "3">>, <<"#", "}", "\"", "#">> }

CommentSources ==
    { [tokens |-> tokens, gaps |-> gaps, comment |-> comment] :
         tokens \in CommentBases, comment \in CommentTexts,
         gaps \in {g \in SUBSET (0..7) : Cardinality(g) <= MaxComments} }

\* The tokens from the i-th on, a comment and a line end in each gap of gaps
\* (gap i follows token i; the last comment ends the text), a space in the
\* others.
RECURSIVE CommentedText(_, _)
CommentedText(s, i) ==
    IF i > Len(s.tokens) THEN <<>>
    ELSE (IF i = 0 THEN <<>> ELSE s.tokens[i])
         \o (IF i \in s.gaps
             THEN <<" ">> \o s.comment
                  \o (IF i = Len(s.tokens) THEN <<>> ELSE <<"\n">>)
             ELSE IF i = 0 \/ i = Len(s.tokens) THEN <<>> ELSE <<" ">>)
         \o CommentedText(s, i + 1)

InitComments ==
    /\ pc = "tokenize"
    /\ source \in {s \in CommentSources : s.gaps \subseteq 0..Len(s.tokens)}
    /\ input = CommentedText(source, 0)
    /\ options = None /\ tokRes = None /\ tokNcRes = None
    /\ res1 = None /\ out1 = None /\ res2 = None /\ out2 = None
    /\ heap = None /\ root = None /\ last = None

SpecComments == InitComments /\ [][NextCalls]_vars

\* text without its comments: outside a string, # and what follows it on
\* the line are left out; the line ends stay.
RECURSIVE Uncommented(_, _)
Uncommented(text, mode) ==
    IF text = <<>> THEN <<>>
    ELSE LET char == Head(text) IN
         IF mode = "comment"
         THEN IF char = "\n" THEN <<char>> \o Uncommented(Tail(text), "code")
              ELSE Uncommented(Tail(text), "comment")
         ELSE IF mode = "string"
         THEN IF char = "\\" /\ Len(text) > 1 /\ text[2] = "\""
              THEN <<char, "\"">> \o Uncommented(Tail(Tail(text)), "string")
              ELSE <<char>> \o Uncommented(Tail(text),
                                           IF char = "\"" THEN "code" ELSE "string")
         ELSE IF char = "#" THEN Uncommented(Tail(text), "comment")
         ELSE <<char>> \o Uncommented(Tail(text),
                                      IF char = "\"" THEN "string" ELSE "code")

\* A token or an error without its place.
Placeless(r) == [f \in DOMAIN r \ {"line", "column"} |-> r[f]]

\* The tokens without the Comment ones, by a walk from the last to the first.
RECURSIVE NonComments(_)
NonComments(tokens) ==
    IF tokens = <<>> THEN <<>>
    ELSE LET front == NonComments(SubSeq(tokens, 1, Len(tokens) - 1))
             tk == tokens[Len(tokens)]
         IN IF tk.type = "Comment" THEN front ELSE Append(front, tk)

\* result is what plain, the result for text, is; an error at the end of
\* text may stand at another end.
SameButEnd(result, plain, text) ==
    /\ result.success = plain.success
    /\ result.success => result = plain
    /\ ~result.success =>
          /\ Placeless(result.error) = Placeless(plain.error)
          /\ <<plain.errorLine, plain.errorColumn>> # EndPlace(text, 1, 1) =>
                result = plain

\* C20: tokenizeWithoutComments(text) is the result of tokenize(text) with
\* the Comment tokens removed and the other tokens unchanged in content,
\* place and order, a failure unchanged; parse reads the same sequence, so
\* its result is that of the text without its comments (but for the place of
\* the end of the input): a comment adds no Property and no error.
C20_CommentsTransparent ==
    /\ pc \in {"parse", "called"} =>
          /\ tokRes.success =>
                /\ tokNcRes.success
                /\ DOMAIN tokNcRes = DOMAIN tokRes
                /\ tokNcRes.tokens = NonComments(tokRes.tokens)
          /\ ~tokRes.success => tokNcRes = tokRes
    /\ pc = "called" =>
          SameButEnd(res1, parse(Uncommented(input, "code")), Uncommented(input, "code"))

C20_Witness ==
    /\ pc = "called"
    /\ source.gaps = {1, 4}
    /\ source.tokens[3] = <<"{">> /\ source.tokens[5] = <<"<">>
    /\ Len(source.comment) > 1
    /\ Len(tokRes.tokens) = Len(tokNcRes.tokens) + 2
    /\ res1.success

(***************************************************************************)
(* Texts of up to MaxPieces pieces: a token text after nothing, a tab, a   *)
(* carriage return or a line end.                                          *)
(***************************************************************************)
MaxPieces == 2

PieceGaps == {<<>>, <<"\t">>, <<"\r">>, <<"\n">>}

PieceTexts ==
    { <<"a">>, <<"=">>, <<"1", "2">>, <<"\"", "s", "\n", "t", "\"">>, <<"#", "c">> }

Pieces == {gap \o text : gap \in PieceGaps, text \in PieceTexts}

RECURSIVE Concat(_)
Concat(parts) == IF parts = <<>> THEN <<>> ELSE Head(parts) \o Concat(Tail(parts))

PieceInputs == {Concat(parts) : parts \in SeqsUpTo(Pieces, MaxPieces) \ {<<>>}}

InitPieces ==
    /\ pc = "tokenize"
    /\ input \in PieceInputs
    /\ options = None /\ tokRes = None /\ tokNcRes = None
    /\ res1 = None /\ out1 = None /\ res2 = None /\ out2 = None
    /\ heap = None /\ root = None /\ last = None /\ source = None

SpecPieces == InitPieces /\ [][NextCalls]_vars

LineEndsBefore(text, i) == {j \in 1..(i - 1) : text[j] = "\n"}

Greatest(S) == CHOOSE x \in S : \A y \in S : y <= x

\* The line and column of the i-th character: a line end starts a new line
\* at column 1, every other character takes one column.
PlaceAt(text, i) ==
    <<1 + Cardinality(LineEndsBefore(text, i)),
      i - Greatest(LineEndsBefore(text, i) \cup {0})>>

\* What the source holds where a token starts.
FirstCharacters(token) ==
    IF token.type = "String" THEN <<"\"">>
    ELSE IF token.type = "Comment" THEN <<"#">>
    ELSE token.value

StartsAt(text, token, i) ==
    /\ PlaceAt(text, i) = <<token.line, token.column>>
    /\ i + Len(FirstCharacters(token)) - 1 <= Len(text)
    /\ SubSeq(text, i, i + Len(FirstCharacters(token)) - 1) = FirstCharacters(token)

\* C21: every token carries the 1-based line and column of its first
\* character, a line end starting a new line at column 1 and every other
\* character (tab, carriage return, characters inside a string) taking one
\* column; the places grow strictly along the token sequence.
C21_TokenPositions ==
    (pc \in {"tokenizeWithoutComments", "parse", "called"} /\ tokRes.success) =>
        LET tokens == tokRes.tokens IN
        /\ \A k \in 1..(Len(tokens) - 1) :
              /\ \E i \in 1..Len(input) : StartsAt(input, tokens[k], i)
              /\ Before(<<tokens[k].line, tokens[k].column>>,
                        <<tokens[k + 1].line, tokens[k + 1].column>>)
        /\ <<tokens[Len(tokens)].line, tokens[Len(tokens)].column>>
              = PlaceAt(input, Len(input) + 1)

C21_Witness ==
    /\ pc = "called" /\ tokRes.success
    /\ input = <<"\t", "\"", "s", "\n", "t", "\"", "\r", "a">>
    /\ [k \in 1..3 |-> <<tokRes.tokens[k].line, tokRes.tokens[k].column>>]
          = <<<<1, 2>>, <<2, 4>>, <<2, 5>>>>

(***************************************************************************)
(* One-line texts over digits, -, ., a letter and the space.               *)
(***************************************************************************)
MaxNumberChars == 4

NumberAlphabet == {"0", "1", "-", ".", "a", " "}

NumberInputs == SeqsUpTo(NumberAlphabet, MaxNumberChars) \ {<<>>}

InitNumberLex ==
    /\ pc = "tokenize"
    /\ input \in NumberInputs
    /\ options = None /\ tokRes = None /\ tokNcRes = None
    /\ res1 = None /\ out1 = None /\ res2 = None /\ out2 = None
    /\ heap = None /\ root = None /\ last = None /\ source = None

SpecNumberLex == InitNumberLex /\ [][NextCalls]_vars

IsDigitAt(text, i) == i <= Len(text) /\ text[i] \in {"0", "1"}

\* How many digits stand from the i-th character on.
RECURSIVE DigitRun(_, _)
DigitRun(text, i) == IF IsDigitAt(text, i) THEN 1 + DigitRun(text, i + 1) ELSE 0

StartsNumber(text, i) ==
    IsDigitAt(text, i) \/ (i <= Len(text) /\ text[i] = "-" /\ IsDigitAt(text, i + 1))

\* The length of the longest -?digits(.digits)? that starts at the i-th
\* character, which starts a number.
LongestNumber(text, i) ==
    LET sign == IF text[i] = "-" THEN 1 ELSE 0
        whole == DigitRun(text, i + sign)
        point == i + sign + whole
    IN sign + whole
       + (IF point <= Len(text) /\ text[point] = "." /\ IsDigitAt(text, point + 1)
          THEN 1 + DigitRun(text, point + 1) ELSE 0)

\* tokens are tokens of the first line of text: the Number ones are the
\* longest literals where they start, the others start no number.
NumbersLexed(text, tokens) ==
    \A k \in 1..Len(tokens) :
        LET i == tokens[k].column IN
        tokens[k].type # "EOF" =>
            /\ tokens[k].type = "Number" <=> StartsNumber(text, i)
            /\ tokens[k].type = "Number" =>
                  tokens[k].value = SubSeq(text, i, i + LongestNumber(text, i) - 1)

\* The tokens read before the character at column.
TokensBefore(text, column) ==
    IF WhitespaceOnly(SubSeq(text, 1, column - 1)) THEN <<>>
    ELSE tokenize(SubSeq(text, 1, column - 1)).tokens

\* C22: a Number token starts only at a digit or at - followed by a digit,
\* and its literal is the longest -?digits(.digits)? there, as written; a
\* point after the digits that no digit follows is not part of it and is
\* read as the start of the next token.
C22_NumberLexing ==
    pc \in {"tokenizeWithoutComments", "parse", "called"} =>
        /\ tokRes.success => NumbersLexed(input, tokRes.tokens)
        /\ (~tokRes.success /\ "errorColumn" \in DOMAIN tokRes) =>
              NumbersLexed(input, TokensBefore(input, tokRes.errorColumn))
        /\ \A i \in 1..Len(input) :
              (/\ StartsNumber(input, i)
               /\ WhitespaceOnly(SubSeq(input, 1, i - 1))
               /\ i + LongestNumber(input, i) <= Len(input)
               /\ input[i + LongestNumber(input, i)] = ".") =>
                  /\ ~tokRes.success
                  /\ tokRes.error.msg = "Unexpected character"
                  /\ tokRes.error.char = "."
                  /\ tokRes.errorColumn = i + LongestNumber(input, i)

C22_Witness ==
    /\ pc = "called"
    /\ input = <<"-", "1", ".", "0">>
    /\ tokRes.success
    /\ tokRes.tokens[1] = Token("Number", <<"-", "1", ".", "0">>, 1, 1)

(***************************************************************************)
(* Texts over !, =, -, a digit, ., a letter, $ and the line end.           *)
(***************************************************************************)
MaxUnexpectedChars == 4

UnexpectedAlphabet == {"!", "=", "-", "1", ".", "a", "$", "\n"}

UnexpectedInputs == SeqsUpTo(UnexpectedAlphabet, MaxUnexpectedChars) \ {<<>>}

InitUnexpected ==
    /\ pc = "tokenize"
    /\ input \in UnexpectedInputs
    /\ options = None /\ tokRes = None /\ tokNcRes = None
    /\ res1 = None /\ out1 = None /\ res2 = None /\ out2 = None
    /\ heap = None /\ root = None /\ last = None /\ source = None

SpecUnexpected == InitUnexpected /\ [][NextCalls]_vars

\* How many characters of a name stand from the i-th on.
RECURSIVE NameRun(_, _)
NameRun(text, i) ==
    IF i <= Len(text) /\ text[i] \in {"a", "1", "."} THEN 1 + NameRun(text, i + 1)
    ELSE 0

\* The index of the first character from the i-th on, read token by token,
\* that starts no token; 0 when there is none.
RECURSIVE FirstUnmatched(_, _)
FirstUnmatched(text, i) ==
    IF i > Len(text) THEN 0
    ELSE IF text[i] = "\n" \/ text[i] = "=" THEN FirstUnmatched(text, i + 1)
    ELSE IF StartsNumber(text, i)
    THEN FirstUnmatched(text, i + LongestNumber(text, i))
    ELSE IF text[i] = "!" /\ i < Len(text) /\ text[i + 1] = "="
    THEN FirstUnmatched(text, i + 2)
    ELSE IF text[i] = "a" THEN FirstUnmatched(text, i + NameRun(text, i))
    ELSE i

UnexpectedAt(result, text, i) ==
    /\ ~result.success
    /\ result.error = [msg |-> "Unexpected character", char |-> text[i],
                       line |-> PlaceAt(text, i)[1], column |-> PlaceAt(text, i)[2]]
    /\ <<result.errorLine, result.errorColumn>> = PlaceAt(text, i)

\* C23: the first character that starts no token (a ! that no = follows, a -
\* that no digit follows, a . or another unmatched character where a token
\* would start) makes tokenize fail with Unexpected character, and the error
\* line and column are those of that character.
C23_UnexpectedCharacter ==
    (pc \in {"tokenizeWithoutComments", "parse", "called"}
     /\ ~WhitespaceOnly(input)) =>
        IF FirstUnmatched(input, 1) = 0 THEN tokRes.success
        ELSE UnexpectedAt(tokRes, input, FirstUnmatched(input, 1))

C23_Witness ==
    /\ pc = "called"
    /\ input = <<"a", "\n", "!", "-">>
    /\ ~tokRes.success
    /\ tokRes.error.char = "!"
    /\ tokRes.errorLine = 2 /\ tokRes.errorColumn = 1

(***************************************************************************)
(* The place parse reports for a parser error.                             *)
(***************************************************************************)
\* The index of the token of tokens at line and column; 0 when none is.
IndexAt(tokens, line, column) ==
    LET found == {k \in 1..Len(tokens) :
                     tokens[k].line = line /\ tokens[k].column = column}
    IN IF found = {} THEN 0 ELSE CHOOSE k \in found : TRUE

\* The token the cursor stands on when the parser raises error: the one
\* after the key for a missing operator, the one the message names else.
TokenInError(tokens, error) ==
    LET named == IndexAt(tokens, error.line, error.column) IN
    IF error.msg = "Expected operator after" THEN named + 1 ELSE named

\* Where the parser's cursor stands when parseProperties returns or throws.
FinalCursor(tokens) == parseProperties(tokens, NewParser(tokens), <<>>).p.position

ParserFailed ==
    pc = "called" /\ tokRes.success /\ ~res1.success

\* C24: a parser error (Expected operator after, Expected '}', Unexpected
\* token) is reported with the line and column of the token under the
\* cursor; the cursor stays between 0 and the index of the EOF token, so
\* that token exists.
C24_ParserErrorPosition ==
    /\ ParserFailed =>
          LET tokens == NonComments(tokRes.tokens)
              k == TokenInError(tokens, res1.error)
          IN /\ res1.error.msg \in
                   {"Expected operator after", "Expected '}'", "Unexpected token"}
             /\ k \in 1..Len(tokens)
             /\ res1.errorLine = tokens[k].line
             /\ res1.errorColumn = tokens[k].column
             /\ res1.error.msg = "Expected '}'" => tokens[k].type # "RightBrace"
             /\ res1.error.msg = "Unexpected token" => tokens[k].value = res1.error.value
             /\ res1.error.msg = "Expected operator after" =>
                   /\ tokens[k - 1].type = "Identifier"
                   /\ tokens[k - 1].value = res1.error.key
                   /\ ~isOperatorType(tokens[k].type)
    /\ (pc = "called" /\ tokRes.success) =>
          FinalCursor(NonComments(tokRes.tokens))
              \in 0..(Len(NonComments(tokRes.tokens)) - 1)

C24_Witness ==
    /\ ParserFailed
    /\ input = <<"a", "#", "\n", "}">>
    /\ res1.error.msg = "Expected operator after"
    /\ res1.errorLine = 2 /\ res1.errorColumn = 1

(***************************************************************************)
(* Documents of up to MaxTop top-level properties whose values are a       *)
(* number, a one-line Block or, the first, Blocks nested up to MaxDepth.   *)
(***************************************************************************)
MaxTop == 2

MaxDepth == 2

SourceBig ==
    SourceBlock(<<SourceProp(<<"b">>, <<"<">>, SourceNumber("2", 2)),
                  SourceProp(<<"c">>, <<"=">>, SourceArrayOf(1))>>)

\* A Block over several lines with such Blocks in it, depth deep.
RECURSIVE SourceNest(_)
SourceNest(depth) ==
    IF depth = 0 THEN SourceBig
    ELSE SourceBlock(<<SourceProp(<<"b">>, <<"=">>, SourceNest(depth - 1)),
                       SourceProp(<<"c">>, <<">">>, SourceNumber("3", 3))>>)

FlatItems ==
    { SourceNumber("1", 1),
      SourceBlock(<<SourceProp(<<"b">>, <<"=">>, SourceNumber("2", 2))>>),
      SourceBig }

LayoutItems == FlatItems \cup {SourceNest(depth) : depth \in 1..MaxDepth}

\* One property of any depth and then flat ones.
LayoutSources ==
    { <<SourceProp(<<"a">>, <<"=">>, first)>> \o rest :
         first \in LayoutItems,
         rest \in SeqsUpTo({SourceProp(<<"a">>, <<"=">>, item) : item \in FlatItems},
                           MaxTop - 1) }

InitLayout ==
    /\ pc = "parse"
    /\ source \in LayoutSources
    /\ input = WriteProps(source, <<"\n">>)
    /\ options = None /\ tokRes = None /\ tokNcRes = None
    /\ res1 = None /\ out1 = None /\ res2 = None /\ out2 = None
    /\ heap = None /\ root = None /\ last = None

SpecLayout == InitLayout /\ [][NextRoundTrip]_vars

\* The lines of properties written at depth: [units, text] each, units the
\* number of indentation units before text.
RECURSIVE LinesAt(_, _)
LinesAt(properties, depth) ==
    IF properties = <<>> THEN <<>>
    ELSE LET prop == Head(properties)
             start == prop.key \o <<" ">> \o prop.operator \o <<" ">>
         IN (IF FitsOneLine(prop.value)
             THEN <<[units |-> depth, text |-> start \o Rendering(prop.value, 0, <<>>)]>>
             ELSE <<[units |-> depth, text |-> start \o <<"{">>]>>
                  \o LinesAt(prop.value.properties, depth + 1)
                  \o <<[units |-> depth, text |-> <<"}">>]>>)
            \o LinesAt(Tail(properties), depth)

\* The lines of the top-level properties from the i-th on, an empty line
\* between two properties when blank.
RECURSIVE TopLines(_, _, _)
TopLines(properties, i, blank) ==
    IF i > Len(properties) THEN <<>>
    ELSE LinesAt(<<properties[i]>>, 0)
         \o (IF blank /\ i < Len(properties) THEN <<[units |-> 0, text |-> <<>>]>>
             ELSE <<>>)
         \o TopLines(properties, i + 1, blank)

Written(lines, unit) ==
    join([k \in 1..Len(lines) |-> repeat(unit, lines[k].units) \o lines[k].text],
         <<"\n">>)

\* C25: stringify writes each top-level Property as key operator value on a
\* line of its own without indentation, no line end after the last; in a
\* Block written over several lines at depth d every inner property line
\* starts with d+1 indentation units and the closing } with d; the unit is a
\* tab, or indent when given, or spaces spaces whenever spaces is given.
C25_StringifyLayout ==
    /\ pc # "failed"
    /\ Stringified =>
          /\ Deep(res1.heap, Ref(res1.document)).properties = Expected(source)
          /\ out1 = Written(TopLines(Expected(source), 1,
                                     "spaceBetweenTopLevel" \in DOMAIN options
                                     /\ options.spaceBetweenTopLevel),
                            IF "spaces" \in DOMAIN options
                            THEN [i \in 1..options.spaces |-> " "]
                            ELSE IF "indent" \in DOMAIN options THEN options.indent
                            ELSE <<"\t">>)
          /\ out1[Len(out1)] # "\n"

C25_Witness ==
    /\ Stringified
    /\ options = [spaces |-> 2]
    /\ source = <<SourceProp(<<"a">>, <<"=">>, SourceNest(1))>>
    /\ out1 = <<"a", " ", "=", " ", "{", "\n">>
              \o <<" ", " ", "b", " ", "=", " ", "{", "\n">>
              \o <<" ", " ", " ", " ", "b", " ", "<", " ", "2", "\n">>
              \o <<" ", " ", " ", " ", "c", " ", "=", " ", "{", " ", "1", " ", "}", "\n">>
              \o <<" ", " ", "}", "\n">>
              \o <<" ", " ", "c", " ", ">", " ", "3", "\n">>
              \o <<"}">>

(***************************************************************************)
(* The primitives of a document and their places.                          *)
(***************************************************************************)
\* <<place, primitive>> for every primitive in value (unfolded): a place is
\* the sequence of the indices of the properties and elements walked through.
RECURSIVE PrimitivesIn(_)
PrimitivesIn(value) ==
    IF IsPrimitive(value) THEN {<<<<>>, value>>}
    ELSE IF value.type = "ValueArray"
    THEN {<<<<i>>, value.values[i]>> : i \in 1..Len(value.values)}
    ELSE UNION { {<<<<i>> \o found[1], found[2]>> :
                     found \in PrimitivesIn(value.properties[i].value)}
                 : i \in 1..Len(value.properties) }

\* C26: every primitive of a parsed Document (a property value or a
\* ValueArray element) is written by stringify so that parsing the output
\* gives a primitive of the same kind (string, number, boolean) and content
\* at the same place.
C26_PrimitiveKindPreserved ==
    (Reparsed /\ options = <<>>
     /\ PrimitivesIn(Deep(res1.heap, Ref(res1.document))) # {}) =>
        /\ res2.success
        /\ PrimitivesIn(Deep(res1.heap, Ref(res1.document)))
              \subseteq PrimitivesIn(Deep(res2.heap, Ref(res2.document)))

(***************************************************************************)
(* Texts over the quote, the backslash, a letter and the line end.         *)
(***************************************************************************)
MaxStringChars == 5

StringAlphabet == {"\"", "\\", "a", "\n"}

StringInputs == SeqsUpTo(StringAlphabet, MaxStringChars) \ {<<>>}

InitStrings ==
    /\ pc = "tokenize"
    /\ input \in StringInputs
    /\ options = None /\ tokRes = None /\ tokNcRes = None
    /\ res1 = None /\ out1 = None /\ res2 = None /\ out2 = None
    /\ heap = None /\ root = None /\ last = None /\ source = None

SpecStrings == InitStrings /\ [][NextCalls]_vars

\* The quotes after the opening one at i that no backslash of the literal
\* stands right before.
ClosingQuotes(text, i) ==
    {j \in (i + 1)..Len(text) :
        text[j] = "\"" /\ ~(j - 1 > i /\ text[j - 1] = "\\")}

Least(S) == CHOOSE x \in S : \A y \in S : x <= y

\* text[from..to] without the backslashes that a quote follows.
RECURSIVE Unescaped(_, _, _)
Unescaped(text, from, to) ==
    IF from > to THEN <<>>
    ELSE IF text[from] = "\\" /\ from < to /\ text[from + 1] = "\""
    THEN <<"\"">> \o Unescaped(text, from + 2, to)
    ELSE <<text[from]>> \o Unescaped(text, from + 1, to)

\* The index of the character at line and column.
IndexOfPlace(text, line, column) ==
    CHOOSE i \in 1..(Len(text) + 1) : PlaceAt(text, i) = <<line, column>>

\* tokens[k] is the literal that opens at its place, and the next token
\* starts after the closing quote.
StringLexed(text, tokens, k) ==
    LET i == IndexOfPlace(text, tokens[k].line, tokens[k].column)
        j == Least(ClosingQuotes(text, i))
    IN /\ text[i] = "\""
       /\ ClosingQuotes(text, i) # {}
       /\ tokens[k].value = Unescaped(text, i + 1, j - 1)
       /\ IndexOfPlace(text, tokens[k + 1].line, tokens[k + 1].column) > j

\* The first character that is no line end.
FirstInk(text) == Least({i \in 1..Len(text) : text[i] # "\n"})

\* C27: a quote opens a String token that ends at the next quote that no
\* escaping backslash stands before; its value is the text between with every
\* backslash-quote pair replaced by a quote and all else (other backslashes,
\* line ends) as written; line ends inside count as lines; the token has the
\* place of the opening quote.
C27_StringLexing ==
    (pc \in {"tokenizeWithoutComments", "parse", "called"} /\ ~WhitespaceOnly(input)) =>
        /\ tokRes.success =>
              \A k \in 1..(Len(tokRes.tokens) - 1) :
                  /\ \E i \in 1..Len(input) : StartsAt(input, tokRes.tokens[k], i)
                  /\ tokRes.tokens[k].type = "String" =>
                        StringLexed(input, tokRes.tokens, k)
        /\ input[FirstInk(input)] = "\"" =>
              IF ClosingQuotes(input, FirstInk(input)) = {}
              THEN /\ ~tokRes.success
                   /\ tokRes.error = [msg |-> "Unterminated string starting",
                                      line |-> PlaceAt(input, FirstInk(input))[1],
                                      column |-> PlaceAt(input, FirstInk(input))[2]]
              ELSE tokRes.success =>
                      /\ tokRes.tokens[1].type = "String"
                      /\ StringLexed(input, tokRes.tokens, 1)

C27_Witness ==
    /\ pc = "called"
    /\ input = <<"\"", "\\", "\"", "\n", "\"">>
    /\ tokRes.success
    /\ tokRes.tokens = <<Token("String", <<"\"", "\n">>, 1, 1), Token("EOF", <<>>, 2, 2)>>

\* C28: whenever parse succeeds the parser has read every token that is no
\* comment: its cursor stands on the EOF token.
C28_CompleteConsumption ==
    (pc = "called" /\ res1.success) =>
        FinalCursor(NonComments(tokRes.tokens)) = Len(NonComments(tokRes.tokens)) - 1

(***************************************************************************)
(* parse, one turn of a loop at a time.  While the call runs, `source`     *)
(* holds the running object (the Tokenizer, then the Parser with the       *)
(* properties collected so far) and `last` counts the turns taken.         *)
(***************************************************************************)

MaxStepChars == 4

StepAlphabet == {"a", "=", "{", "}", " ", "!"}

StepInputs == Texts({<<c>> : c \in StepAlphabet}, MaxStepChars)

InitSteps ==
    /\ pc = "parse"
    /\ input \in StepInputs
    /\ options = None /\ tokNcRes = None
    /\ out1 = None /\ res2 = None /\ out2 = None
    /\ heap = None /\ root = None
    /\ tokRes = Undefined /\ res1 = Undefined /\ source = Undefined
    /\ last = [turns |-> 0]

\* parse: the empty-input check, then `new Tokenizer(input)`.
EnterParse ==
    /\ pc = "parse"
    /\ IF isEmptyInput(input)
       THEN /\ pc' = "returned"
            /\ res1' = [success |-> FALSE, error |-> EmptyInputError]
            /\ UNCHANGED source
       ELSE /\ pc' = "tokenizer"
            /\ source' = NewTokenizer
            /\ UNCHANGED res1
    /\ UNCHANGED <<input, options, tokRes, tokNcRes, out1, res2, out2, heap, root, last>>

\* One turn of the main loop of Tokenizer.tokenize; a thrown error is caught
\* and parse returns the failure.
TokenizerTurn ==
    /\ pc = "tokenizer"
    /\ ~TokenizerIsAtEnd(input, source)
    /\ last' = [turns |-> last.turns + 1]
    /\ LET t1 == skipWhitespace(input, source) IN
       IF TokenizerIsAtEnd(input, t1)
       THEN /\ source' = t1
            /\ pc' = "tokenizer"
            /\ UNCHANGED <<tokRes, res1>>
       ELSE LET r == scanToken(input, t1) IN
            IF "error" \in DOMAIN r
            THEN /\ tokRes' = [success |-> FALSE, error |-> r.error,
                               errorLine |-> r.t.line, errorColumn |-> r.t.column]
                 /\ res1' = parseTokens(tokRes')
                 /\ pc' = "returned"
                 /\ UNCHANGED source
            ELSE /\ source' = [r.t EXCEPT !.tokens = Append(@, r.token)]
                 /\ pc' = "tokenizer"
                 /\ UNCHANGED <<tokRes, res1>>
    /\ UNCHANGED <<input, options, tokNcRes, out1, res2, out2, heap, root>>

\* The main loop left: the EOF token, the result, and `new Parser(tokens)`.
TokenizerReturn ==
    /\ pc = "tokenizer"
    /\ TokenizerIsAtEnd(input, source)
    /\ pc' = "parser"
    /\ tokRes' = [success |-> TRUE,
                  tokens |-> Append(source.tokens,
                                    Token("EOF", <<>>, source.line, source.column))]
    /\ LET tokens == withoutComments(tokRes'.tokens) IN
       source' = [tokens |-> tokens, p |-> NewParser(tokens), properties |-> <<>>]
    /\ UNCHANGED <<input, options, tokNcRes, res1, out1, res2, out2, heap, root, last>>

\* Mutant of ParserTurn: the cursor put back where the turn began.
ParserTurnInPlace ==
    /\ pc = "parser"
    /\ ~ParserIsAtEnd(source.tokens, source.p)
    /\ ~check(source.tokens, source.p, "RightBrace")
    /\ last' = [turns |-> last.turns + 1]
    /\ LET r == parseProperty(source.tokens, source.p) IN
       IF "error" \in DOMAIN r
       THEN /\ res1' = parserResult(source.tokens, r)
            /\ pc' = "returned"
            /\ UNCHANGED source
       ELSE /\ source' = [source EXCEPT !.p = [r.p EXCEPT !.position = source.p.position],
                                       !.properties = @ \o r.property]
            /\ pc' = "parser"
            /\ UNCHANGED res1
    /\ UNCHANGED <<input, options, tokRes, tokNcRes, out1, res2, out2, heap, root>>

\* One turn of the loop of parseProperties called by Parser.parse; a thrown
\* error is caught and parse returns the failure.
ParserTurn ==
    /\ pc = "parser"
    /\ ~ParserIsAtEnd(source.tokens, source.p)
    /\ ~check(source.tokens, source.p, "RightBrace")
    /\ last' = [turns |-> last.turns + 1]
    /\ LET r == parseProperty(source.tokens, source.p) IN
       IF "error" \in DOMAIN r
       THEN /\ res1' = parserResult(source.tokens, r)
            /\ pc' = "returned"
            /\ UNCHANGED source
       ELSE /\ source' = [source EXCEPT !.p = r.p, !.properties = @ \o r.property]
            /\ pc' = "parser"
            /\ UNCHANGED res1
    /\ UNCHANGED <<input, options, tokRes, tokNcRes, out1, res2, out2, heap, root>>

\* The loop left: the Document returned.
ParserReturn ==
    /\ pc = "parser"
    /\ ParserIsAtEnd(source.tokens, source.p) \/ check(source.tokens, source.p, "RightBrace")
    /\ pc' = "returned"
    /\ res1' = parserResult(source.tokens, source)
    /\ UNCHANGED <<input, options, tokRes, tokNcRes, out1, res2, out2, heap, root,
                   last, source>>

NextSteps ==
    EnterParse \/ TokenizerTurn \/ TokenizerReturn \/ ParserTurn \/ ParserReturn

\* Every loop is a sequential program: a turn that can be taken is taken.
\* Every step moves the driver or counts a turn.
SpecSteps == InitSteps /\ [][NextSteps]_vars /\ WF_<<pc, last>>(NextSteps)

\* A turn of the tokenizer main loop that stays in the loop has consumed a
\* character.
TokenizerConsumes ==
    (pc = "tokenizer" /\ pc' = "tokenizer") => source'.position > source.position

\* A turn of the loop of parseProperties that stays in the loop has consumed
\* a token.
ParserConsumes ==
    (pc = "parser" /\ pc' = "parser") => source'.p.position > source.p.position

\* The same of the loops inside blocks, from every place of the cursor: a
\* turn of parseProperties throws or moves the cursor on, and parseValueArray
\* takes one token for each value until its loop is left.
InnerLoopsConsume ==
    \A position \in 0..(Len(source.tokens) - 1) :
        LET p == [position |-> position, heap |-> <<>>]
            r == parseProperty(source.tokens, p)
            a == parseValueArray(source.tokens, p, <<>>)
        IN
        /\ (~ParserIsAtEnd(source.tokens, p) /\ ~check(source.tokens, p, "RightBrace")) =>
               ("error" \in DOMAIN r \/ r.p.position > position)
        /\ a.p.position = position + Len(a.values)
        /\ a.p.position < Len(source.tokens)

C30_GetGetAllAgree ==
    pc \in {"loaded", "read"} =>
        \A keys \in DocPaths :
            LET one == get(heap, root, Dotted(keys))
                all == getAll(heap, root, Dotted(keys))
            IN
            /\ (one # Undefined) <=> (Len(all) > 0)
            /\ Len(all) > 0 => one = all[1]

\* After MaxEdits edits: a path with duplicates, where get is the first of
\* them, and a path with no value, where getAll is empty.
C30_Witness ==
    /\ pc = "loaded"
    /\ Len(last.edits) = MaxEdits
    /\ \E keys \in DocPaths :
          /\ Len(getAll(heap, root, Dotted(keys))) >= 2
          /\ getAll(heap, root, Dotted(keys))[1] # getAll(heap, root, Dotted(keys))[2]
          /\ get(heap, root, Dotted(keys)) = getAll(heap, root, Dotted(keys))[1]
    /\ \E keys \in DocPaths :
          /\ get(heap, root, Dotted(keys)) = Undefined
          /\ getAll(heap, root, Dotted(keys)) = <<>>

====
